---- MODULE Spec2Model ----
(***************************************************************************)
(* Model of the question-answering pipeline of Batch-Prediction:           *)
(*   src/src/context_cache.py   ContextCache (transcript store, QA        *)
(*                              history, relevance ranker, persistence)    *)
(*   src/src/batch_processor.py BatchProcessor (prompt assembly, answer   *)
(*                              post-processing, the two orchestrators)    *)
(*                                                                         *)
(* Text is modelled at two levels.  Timestamps, bracket bodies, chunk      *)
(* texts and the transcript context are sequences of one-character         *)
(* strings, so that the regular expressions, split, strip and len of the   *)
(* code are computed character by character.  Questions and answers are    *)
(* sequences of tokens: a word, a bracketed text "[body]" with the links   *)
(* the post-processor has put behind it, or a raw unbracketed text.        *)
(***************************************************************************)
EXTENDS Integers, Sequences, FiniteSets, TLC

VARIABLES
    transcript_cache,  \* ContextCache.transcript_cache: the dict, as the sequence of its values in insertion order
    qa_cache,          \* ContextCache.qa_cache: the QA history list
    transcript_file,   \* content of transcript_cache.json
    qa_file,           \* content of qa_cache.json
    embedder,          \* ContextCache._model: "unloaded", "loaded", or "unavailable" (import failed)
    clock,             \* wall clock read by datetime.now(), in hours
    video_id,          \* BatchProcessor.video_id ("" when not configured)
    google_cache_id,   \* BatchProcessor.google_cache_id ("" when None)
    supports_caching,  \* BatchProcessor.supports_caching
    session,           \* main.py: the globals YOUTUBE_VIDEO_URL, cache and processor of a menu session
    level,             \* AsyncLimiter._level: permits consumed and not yet leaked
    window,            \* observation of the limiter: the number of calls it admitted in each of the periods that make up the last 60 seconds, the current period last; <<>> where the admissions are not observed
    run,               \* the orchestrator coroutine in progress
    tasks,             \* the asyncio tasks of the current group, in creation order
    results,           \* the results list of the orchestrator
    all_answers,       \* process_interconnected_questions_async.all_answers
    sent,              \* the remote calls made in this run: question index, prompt, outcome
    call               \* the last call made on the cache or the post-processor by a direct caller: operation, arguments, return value

vars == <<transcript_cache, qa_cache, transcript_file, qa_file, embedder, clock,
          video_id, google_cache_id, supports_caching, session, level, window, run, tasks, results, all_answers,
          sent, call>>

(***************************************************************************)
(* Bounds of the model.                                                    *)
(***************************************************************************)
\* questions per run
MaxQuestions == 2

\* QA pairs the history holds before get_related_qa is called
MaxHistory == 3

\* the hour at which the clock stops advancing
MaxClock == 2

\* the most chunks one call of add_transcript_chunks is given
MaxChunks == 2

\* questions per run where the admissions of the limiter are observed
MaxLimiterQuestions == 3

\* questions per run where a run has more than one group
MaxGroupQuestions == 11

\* the max_chars asked of get_transcript_context are 0, MinChars..MaxChars
\* and the default; below MinChars no chunk fits, as with 0
MinChars == 24

MaxChars == 60

(***************************************************************************)
(* Characters and character strings.                                       *)
(***************************************************************************)
Digits == {"0", "1", "2", "3", "4", "5", "6", "7", "8", "9"}

Whitespace == {" ", "\n", "\t"}

DigitChar(n) ==
    CASE n = 0 -> "0" [] n = 1 -> "1" [] n = 2 -> "2" [] n = 3 -> "3" [] n = 4 -> "4"
      [] n = 5 -> "5" [] n = 6 -> "6" [] n = 7 -> "7" [] n = 8 -> "8" [] n = 9 -> "9"

DigitValue(c) ==
    CASE c = "0" -> 0 [] c = "1" -> 1 [] c = "2" -> 2 [] c = "3" -> 3 [] c = "4" -> 4
      [] c = "5" -> 5 [] c = "6" -> 6 [] c = "7" -> 7 [] c = "8" -> 8 [] c = "9" -> 9

\* f"{n:02d}" and f"{n:03d}": how the inputs of the model are written down
Fmt2(n) == <<DigitChar((n \div 10) % 10), DigitChar(n % 10)>>

Fmt3(n) == <<DigitChar((n \div 100) % 10), DigitChar((n \div 10) % 10), DigitChar(n % 10)>>

\* "HH:MM:SS"
TsText(h, m, s) == Fmt2(h) \o <<":">> \o Fmt2(m) \o <<":">> \o Fmt2(s)

\* "HH:MM:SS.mmm"
TsFracText(h, m, s, f) == TsText(h, m, s) \o <<".">> \o Fmt3(f)

Slice(s, i, j) == IF i > j THEN <<>> ELSE SubSeq(s, i, j)

\* str.strip()
RECURSIVE LStrip(_)
LStrip(s) == IF s # <<>> /\ Head(s) \in Whitespace THEN LStrip(Tail(s)) ELSE s

RECURSIVE RStrip(_)
RStrip(s) ==
    IF s # <<>> /\ s[Len(s)] \in Whitespace THEN RStrip(SubSeq(s, 1, Len(s) - 1)) ELSE s

Strip(s) == RStrip(LStrip(s))

\* sub in s, for character strings
IsSubstring(sub, s) ==
    \E i \in 1..(Len(s) - Len(sub) + 1) : SubSeq(s, i, i + Len(sub) - 1) = sub

\* s.split(c): the pieces between the occurrences of the character c
RECURSIVE SplitAcc(_, _, _)
SplitAcc(s, c, cur) ==
    IF s = <<>> THEN <<cur>>
    ELSE IF Head(s) = c THEN <<cur>> \o SplitAcc(Tail(s), c, <<>>)
    ELSE SplitAcc(Tail(s), c, Append(cur, Head(s)))

Split(s, c) == SplitAcc(s, c, <<>>)

\* int(s) for a string of decimal digits
RECURSIVE ParseInt(_)
ParseInt(s) ==
    IF s = <<>> THEN 0 ELSE 10 * ParseInt(SubSeq(s, 1, Len(s) - 1)) + DigitValue(s[Len(s)])

\* int(float(s)) for "SS" or "SS.mmm": the integer part
IntOfFloat(s) == ParseInt(Split(s, ".")[1])

(***************************************************************************)
(* The two regular expressions of the post-processor.                      *)
(***************************************************************************)
\* \d{2}:\d{2}:\d{2}(?:\.\d{3})? over the whole of s
ClockPattern(s) ==
    /\ Len(s) \in {8, 12}
    /\ \A i \in {1, 2, 4, 5, 7, 8} : s[i] \in Digits
    /\ s[3] = ":" /\ s[6] = ":"
    /\ Len(s) = 12 => (s[9] = "." /\ \A i \in {10, 11, 12} : s[i] \in Digits)

\* re.match(r'^\d{2}:\d{2}:\d{2}(?:\.\d{3})?$', s): $ matches at the end of s
\* and also before a newline that ends s
StrictMatch(s) ==
    \/ ClockPattern(s)
    \/ s # <<>> /\ s[Len(s)] = "\n" /\ ClockPattern(SubSeq(s, 1, Len(s) - 1))

\* \s*-\s*
IsRangeSeparator(s) ==
    \E i \in 1..Len(s) :
        /\ s[i] = "-"
        /\ \A j \in 1..Len(s) : j # i => s[j] \in Whitespace

\* the group of r'\[(\d{2}:\d{2}:\d{2}(?:\.\d{3})?(?:\s*-\s*\d{2}:\d{2}:\d{2}(?:\.\d{3})?)?)\]'
CitationMatch(body) ==
    \/ ClockPattern(body)
    \/ \E i \in 1..Len(body), j \in 1..Len(body) :
          /\ i < j
          /\ ClockPattern(SubSeq(body, 1, i))
          /\ IsRangeSeparator(SubSeq(body, i + 1, j - 1))
          /\ ClockPattern(SubSeq(body, j, Len(body)))

(***************************************************************************)
(* Answers: sequences of tokens.                                           *)
(***************************************************************************)
Word(w) == [k |-> "w", w |-> w]

Bracket(body) == [k |-> "br", body |-> body, links |-> <<>>]

Raw(body) == [k |-> "raw", body |-> body]

Words(ws) == [i \in 1..Len(ws) |-> Word(ws[i])]

\* str.lower() on one word
LowerWord(w) ==
    CASE w = "No" -> "no" [] w = "NO" -> "no" [] w = "Not" -> "not" [] w = "NOT" -> "not"
      [] w = "Cannot" -> "cannot" [] w = "None" -> "none" [] w = "NONE" -> "none"
      [] w = "Mentioned" -> "mentioned" [] w = "Information" -> "information"
      [] w = "What" -> "what" [] w = "Topic" -> "topic"
      [] OTHER -> w

\* answer.lower(), as the sequence of its words; a token that is not a word
\* separates the words before it from the words after it
LowerWords(answer) ==
    [i \in 1..Len(answer) |->
        IF answer[i].k = "w" THEN LowerWord(answer[i].w) ELSE "#"]

\* phrase.lower() in answer.lower()
ContainsPhrase(answer, phrase) ==
    LET ws == LowerWords(answer)
        p == [i \in 1..Len(phrase) |-> LowerWord(phrase[i])]
    IN \E i \in 1..(Len(ws) - Len(p) + 1) : SubSeq(ws, i, i + Len(p) - 1) = p

\* the list no_info_phrases, each phrase as its words
no_info_phrases == <<
    <<"does", "not", "mention">>,
    <<"doesn't", "mention">>,
    <<"not", "mentioned">>,
    <<"no", "information">>,
    <<"not", "found", "in", "the", "transcript">>,
    <<"not", "discussed", "in", "the", "transcript">>,
    <<"not", "covered", "in", "the", "transcript">>,
    <<"not", "provided", "in", "the", "transcript">>,
    <<"not", "stated", "in", "the", "transcript">>,
    <<"not", "indicated", "in", "the", "transcript">>,
    <<"not", "referenced", "in", "the", "transcript">>,
    <<"not", "included", "in", "the", "transcript">>,
    <<"not", "present", "in", "the", "transcript">>,
    <<"not", "available", "in", "the", "transcript">>,
    <<"not", "given", "in", "the", "transcript">>,
    <<"not", "shown", "in", "the", "transcript">>,
    <<"not", "described", "in", "the", "transcript">>,
    <<"not", "explained", "in", "the", "transcript">>,
    <<"not", "detailed", "in", "the", "transcript">>,
    <<"not", "specified", "in", "the", "transcript">>,
    <<"not", "outlined", "in", "the", "transcript">>,
    <<"not", "listed", "in", "the", "transcript">>,
    <<"not", "recorded", "in", "the", "transcript">>,
    <<"not", "documented", "in", "the", "transcript">>,
    <<"not", "noted", "in", "the", "transcript">>,
    <<"not", "reported", "in", "the", "transcript">>,
    <<"not", "revealed", "in", "the", "transcript">>,
    <<"not", "disclosed", "in", "the", "transcript">>,
    <<"not", "communicated", "in", "the", "transcript">>,
    <<"not", "conveyed", "in", "the", "transcript">>,
    <<"not", "expressed", "in", "the", "transcript">>,
    <<"not", "articulated", "in", "the", "transcript">>,
    <<"cannot", "find">>,
    <<"could", "not", "find">>,
    <<"unable", "to", "find">>,
    <<"no", "mention", "of">>,
    <<"no", "reference", "to">>,
    <<"no", "indication", "of">>,
    <<"no", "evidence", "of">>,
    <<"no", "data", "on">>,
    <<"no", "details", "about">>,
    <<"no", "information", "about">>,
    <<"no", "discussion", "of">>,
    <<"no", "coverage", "of">>,
    <<"no", "explanation", "of">>,
    <<"no", "description", "of">>,
    <<"no", "specification", "of">>,
    <<"no", "outline", "of">>,
    <<"no", "list", "of">>,
    <<"no", "record", "of">>,
    <<"no", "documentation", "of">>,
    <<"no", "note", "of">>,
    <<"no", "report", "of">>,
    <<"no", "revelation", "of">>,
    <<"no", "disclosure", "of">>,
    <<"no", "communication", "of">>,
    <<"no", "conveyance", "of">>,
    <<"no", "expression", "of">>,
    <<"no", "articulation", "of">>
>>

\* the inline list of line 350
strong_markers == <<
    <<"no", "information">>,
    <<"not", "found">>,
    <<"cannot", "find">>
>>

\* the text of the notice of line 351
NoticeWords ==
    <<"No", "information", "found", "in", "the", "transcript", "for", "this", "question.">>

\* the text substituted for an empty answer, line 237
ApologyWords ==
    <<"I", "apologize,", "but", "I", "couldn't", "generate", "a", "meaningful", "answer",
      "for", "this", "question.", "This", "might", "be", "due", "to", "limitations", "in",
      "the", "API", "response", "or", "the", "content", "of", "the", "video", "transcript.",
      "Please", "try", "rephrasing", "your", "question", "or", "asking", "about", "a",
      "different", "aspect", "of", "the", "video.">>

(***************************************************************************)
(* Answer post-processing: batch_processor.py lines 226-379, repeated      *)
(* verbatim at lines 545-698 for the interconnected mode.                  *)
(***************************************************************************)
\* lines 236-237: an empty answer, or the literal "none" in any case, becomes the apology
CoerceAnswer(response) ==
    IF response = <<>> \/ (Len(response) = 1 /\ response[1].k = "w"
                            /\ LowerWord(response[1].w) = "none")
    THEN Words(ApologyWords)
    ELSE response

\* re.findall of line 242: the bodies of the bracketed citations, in text order
RECURSIVE FindAllCitations(_)
FindAllCitations(answer) ==
    IF answer = <<>> THEN <<>>
    ELSE LET t == Head(answer)
         IN (IF t.k = "br" /\ CitationMatch(t.body) THEN <<t.body>> ELSE <<>>)
            \o FindAllCitations(Tail(answer))

\* lines 247-255
timestamp_to_seconds(timestamp) ==
    LET parts == Split(timestamp, ":")
    IN IF Len(parts) = 3
       THEN ParseInt(parts[1]) * 3600 + ParseInt(parts[2]) * 60 + IntOfFloat(parts[3])
       ELSE IF Len(parts) = 2
       THEN ParseInt(parts[1]) * 60 + IntOfFloat(parts[2])
       ELSE 0

HasHyphen(timestamp) == \E i \in 1..Len(timestamp) : timestamp[i] = "-"

\* answer.replace(f"[{timestamp}]", f"[{timestamp}]({link})"): every occurrence of
\* "[timestamp]" gets the link right behind the closing bracket
ReplaceCitation(answer, timestamp, link) ==
    [i \in 1..Len(answer) |->
        IF answer[i].k = "br" /\ answer[i].body = timestamp
        THEN [answer[i] EXCEPT !.links = <<link>> \o @]
        ELSE answer[i]]

\* a variant of CitedTime that takes the end of a range
CitedEndTime(timestamp) ==
    IF HasHyphen(timestamp) THEN Strip(Split(timestamp, "-")[2]) ELSE timestamp

\* lines 259-269: the time a citation links to, the start time of a range
CitedTime(timestamp) ==
    IF HasHyphen(timestamp) THEN Strip(Split(timestamp, "-")[1]) ELSE timestamp

\* the loop of lines 258-274, one replace per element of the findall list
RECURSIVE LinkCitations(_, _, _)
LinkCitations(answer, timestamps, vid) ==
    IF timestamps = <<>> THEN answer
    ELSE LET timestamp == Head(timestamps)
             link == [vid |-> vid, t |-> timestamp_to_seconds(CitedTime(timestamp))]
         IN LinkCitations(ReplaceCitation(answer, timestamp, link), Tail(timestamps), vid)

\* lines 245-274: the link step, skipped without a video id
LinkStep(answer, vid) ==
    IF vid # "" THEN LinkCitations(answer, FindAllCitations(answer), vid) ELSE answer

\* lines 340-344
NoInfoFound(answer) ==
    \E i \in 1..Len(no_info_phrases) : ContainsPhrase(answer, no_info_phrases[i])

\* line 350
HasStrongMarker(answer) ==
    \E i \in 1..Len(strong_markers) : ContainsPhrase(answer, strong_markers[i])

\* a variant of ClearOnNoInfo that keeps the citations
KeepOnNoInfo(no_info_found, timestamps) == timestamps

\* lines 347-348: a denial empties the list of timestamps
ClearOnNoInfo(no_info_found, timestamps) == IF no_info_found THEN <<>> ELSE timestamps

\* timestamp in answer, for a character string: the brackets and the raw texts are
\* the only places of an answer that hold digits and colons
TokenText(t) ==
    IF t.k = "br" THEN <<"[">> \o t.body \o <<"]">>
    ELSE IF t.k = "raw" THEN t.body
    ELSE <<>>

TextInAnswer(timestamp, answer) ==
    \E i \in 1..Len(answer) : IsSubstring(timestamp, TokenText(answer[i]))

\* lines 356-359: start_time and end_time of every chunk, in dict order
RECURSIVE AllBoundaryTimestamps(_)
AllBoundaryTimestamps(chunks) ==
    IF chunks = <<>> THEN <<>>
    ELSE <<Head(chunks).start_time, Head(chunks).end_time>>
         \o AllBoundaryTimestamps(Tail(chunks))

\* a variant of InferTimestamps without the test of line 363
InferEveryBoundary(answer, chunks) == AllBoundaryTimestamps(chunks)

\* lines 362-364
InferTimestamps(answer, chunks) ==
    LET InAnswer(ts) == TextInAnswer(ts, answer)
    IN SelectSeq(AllBoundaryTimestamps(chunks), InAnswer)

\* a variant of ValidateTimestamps that lets every candidate through
KeepTimestamps(timestamps) == timestamps

\* lines 367-379
RECURSIVE ValidateTimestamps(_)
ValidateTimestamps(timestamps) ==
    IF timestamps = <<>> THEN <<>>
    ELSE LET timestamp == Head(timestamps)
             start_time == Strip(Split(timestamp, "-")[1])
         IN (IF StrictMatch(timestamp) THEN <<timestamp>>
             ELSE IF HasHyphen(timestamp) /\ StrictMatch(start_time) THEN <<start_time>>
             ELSE <<>>)
            \o ValidateTimestamps(Tail(timestamps))

\* lines 226-379: from the response of the remote call to the final answer and
\* timestamps; linked is the answer after the link step, the other fields are
\* the locals of the same name
PostProcess(response, vid, chunks) ==
    LET coerced == CoerceAnswer(response)
        found == FindAllCitations(coerced)
        linked == LinkStep(coerced, vid)
        no_info_found == NoInfoFound(linked)
        answer == IF no_info_found /\ ~HasStrongMarker(linked)
                  THEN Words(NoticeWords) \o linked
                  ELSE linked
        cleared == ClearOnNoInfo(no_info_found, found)
        timestamps == IF cleared = <<>> /\ ~no_info_found
                      THEN InferTimestamps(answer, chunks)
                      ELSE cleared
    IN [answer |-> answer,
        timestamps |-> ValidateTimestamps(timestamps),
        candidates |-> timestamps]

(***************************************************************************)
(* ContextCache: the transcript store.                                     *)
(***************************************************************************)
\* the code points of the characters that occur in timestamps, for the
\* comparison of Python strings
CharCode(c) ==
    CASE c = "\t" -> 9 [] c = "\n" -> 10 [] c = " " -> 32 [] c = "-" -> 45 [] c = "." -> 46
      [] c \in Digits -> 48 + DigitValue(c)
      [] c = ":" -> 58 [] c = "[" -> 91 [] c = "]" -> 93 [] c = "_" -> 95
      [] OTHER -> 97

\* a <= b on Python strings
RECURSIVE StrLeq(_, _)
StrLeq(a, b) ==
    IF a = <<>> THEN TRUE
    ELSE IF b = <<>> THEN FALSE
    ELSE IF Head(a) = Head(b) THEN StrLeq(Tail(a), Tail(b))
    ELSE CharCode(Head(a)) < CharCode(Head(b))

\* line 91: f"{chunk['start_time']}_{chunk['end_time']}"
ChunkKey(chunk) == chunk.start_time \o <<"_">> \o chunk.end_time

\* a variant of DictSet that never finds the key
DictAppend(d, key, value) == Append(d, value)

\* d[key] = value on a dict kept as the sequence of its items in insertion order
DictSet(d, key, value) ==
    IF \E i \in 1..Len(d) : d[i].key = key
    THEN [i \in 1..Len(d) |-> IF d[i].key = key THEN value ELSE d[i]]
    ELSE Append(d, value)

\* lines 89-97: the loop of add_transcript_chunks, i counting from 0
RECURSIVE AddChunksLoop(_, _, _)
AddChunksLoop(d, chunks, i) ==
    IF chunks = <<>> THEN d
    ELSE LET chunk == Head(chunks)
             value == [key |-> ChunkKey(chunk),
                       index |-> i,
                       start_time |-> chunk.start_time,
                       end_time |-> chunk.end_time,
                       text |-> chunk.text]
         IN AddChunksLoop(DictSet(d, ChunkKey(chunk), value), Tail(chunks), i + 1)

\* sorted(chunks, key=lambda x: x['index']): stable, ascending
RECURSIVE InsertByIndex(_, _)
InsertByIndex(sorted, chunk) ==
    IF sorted = <<>> THEN <<chunk>>
    ELSE IF sorted[Len(sorted)].index <= chunk.index THEN Append(sorted, chunk)
    ELSE Append(InsertByIndex(SubSeq(sorted, 1, Len(sorted) - 1), chunk), sorted[Len(sorted)])

RECURSIVE SortByIndex(_)
SortByIndex(chunks) ==
    IF chunks = <<>> THEN <<>>
    ELSE InsertByIndex(SortByIndex(SubSeq(chunks, 1, Len(chunks) - 1)), chunks[Len(chunks)])

\* lines 123-127: one pass over the store per requested timestamp
RECURSIVE FilterChunks(_, _)
FilterChunks(timestamps, d) ==
    IF timestamps = <<>> THEN <<>>
    ELSE LET timestamp == Head(timestamps)
             Covers(chunk) == StrLeq(chunk.start_time, timestamp)
                              /\ StrLeq(timestamp, chunk.end_time)
         IN SelectSeq(d, Covers) \o FilterChunks(Tail(timestamps), d)

\* line 134: f"[{chunk['start_time']} - {chunk['end_time']}] {chunk['text']}\n\n"
ChunkText(chunk) ==
    <<"[">> \o chunk.start_time \o <<" ", "-", " ">> \o chunk.end_time \o <<"]", " ">>
    \o chunk.text \o <<"\n", "\n">>

RECURSIVE CombineContext(_, _, _)

\* a variant of CombineContext that fills the budget with the start of the
\* chunk that does not fit
CombineTruncating(context, chunks, max_chars) ==
    IF chunks = <<>> THEN context
    ELSE LET chunk_text == ChunkText(Head(chunks))
         IN IF Len(context) + Len(chunk_text) > max_chars
            THEN context \o Slice(chunk_text, 1, max_chars - Len(context))
            ELSE CombineContext(context \o chunk_text, Tail(chunks), max_chars)

\* a variant of CombineContext that passes over a chunk that does not fit
\* and goes on with the chunks after it
CombineSkipping(context, chunks, max_chars) ==
    IF chunks = <<>> THEN context
    ELSE LET chunk_text == ChunkText(Head(chunks))
         IN IF Len(context) + Len(chunk_text) > max_chars
            THEN CombineContext(context, Tail(chunks), max_chars)
            ELSE CombineContext(context \o chunk_text, Tail(chunks), max_chars)

\* lines 132-139: the loop that stops at the first chunk that does not fit
CombineContext(context, chunks, max_chars) ==
    IF chunks = <<>> THEN context
    ELSE LET chunk_text == ChunkText(Head(chunks))
         IN IF Len(context) + Len(chunk_text) > max_chars THEN context
            ELSE CombineContext(context \o chunk_text, Tail(chunks), max_chars)

\* lines 116-141
get_transcript_context(d, timestamps, max_chars) ==
    LET sorted_chunks == IF timestamps = <<>> THEN SortByIndex(d)
                         ELSE SortByIndex(FilterChunks(timestamps, d))
    IN Strip(CombineContext(<<>>, sorted_chunks, max_chars))

\* the default of max_chars, line 116
DefaultMaxChars == 8000

(***************************************************************************)
(* ContextCache: persistence.                                              *)
(***************************************************************************)
NoEmbedding == [form |-> "absent", of |-> <<>>]

\* lines 51-72: the copy of the history that is written, an ndarray turned into a list
Serializable(qa) ==
    [i \in 1..Len(qa) |->
        IF qa[i].embedding.form = "ndarray"
        THEN [qa[i] EXCEPT !.embedding = [form |-> "list", of |-> qa[i].embedding.of]]
        ELSE qa[i]]

\* what a file holds after _save_cache, lines 75-86
SavedFile(data) == [state |-> "written", data |-> data]

MissingFile == [state |-> "missing", data |-> <<>>]

\* files that _save_cache did not leave as they are: one of zero bytes, one
\* whose text is no JSON document, one whose bytes are no UTF-8 text, and one
\* that cannot be opened for reading
EmptyFile == [state |-> "empty", data |-> <<>>]

MalformedFile == [state |-> "malformed", data |-> <<>>]

UndecodableFile == [state |-> "undecodable", data |-> <<>>]

UnreadableFile == [state |-> "unreadable", data |-> <<>>]

\* open(file, 'r', encoding='utf-8') followed by json.load(f), lines 35-36 and
\* 42-43, on a file that exists: the value, or the exception raised.  Reading
\* bytes that are no UTF-8 text raises UnicodeDecodeError, which is a
\* ValueError and neither a json.JSONDecodeError nor an IOError.
json_load(file) ==
    CASE file.state = "written" -> [error |-> "none", value |-> file.data]
      [] file.state = "empty" -> [error |-> "JSONDecodeError", value |-> <<>>]
      [] file.state = "malformed" -> [error |-> "JSONDecodeError", value |-> <<>>]
      [] file.state = "undecodable" -> [error |-> "UnicodeDecodeError", value |-> <<>>]
      [] file.state = "unreadable" -> [error |-> "IOError", value |-> <<>>]

\* except (json.JSONDecodeError, IOError), lines 37 and 44
CaughtOnLoad == {"JSONDecodeError", "IOError"}

\* lines 33-38 and 40-47: one half of the store, initialised empty at lines
\* 22-23, after its file was looked at
LoadHalf(file) ==
    IF file.state = "missing" THEN [raised |-> FALSE, value |-> <<>>]
    ELSE IF json_load(file).error = "none" THEN [raised |-> FALSE, value |-> file.data]
    ELSE IF json_load(file).error \in CaughtOnLoad THEN [raised |-> FALSE, value |-> <<>>]
    ELSE [raised |-> TRUE, value |-> <<>>]

\* lines 32-47: an exception of the first half ends the constructor before
\* the second file is looked at
load_cache(tfile, qfile) ==
    IF LoadHalf(tfile).raised
    THEN [raised |-> TRUE, transcript_cache |-> <<>>, qa_cache |-> <<>>]
    ELSE [raised |-> LoadHalf(qfile).raised,
          transcript_cache |-> LoadHalf(tfile).value,
          qa_cache |-> LoadHalf(qfile).value]

\* lines 104-111: the pair add_qa_pair appends
NewPair(question, answer, related_timestamps, time) ==
    [question |-> question,
     answer |-> answer,
     timestamps |-> related_timestamps,
     time |-> time,
     embedding |-> NoEmbedding]

(***************************************************************************)
(* ContextCache: the relevance ranker.                                     *)
(***************************************************************************)
\* set(question.lower().split())
Keywords(question) == {LowerWord(question[i]) : i \in 1..Len(question)}

\* cosine_similarity of the embeddings of two questions, in tenths.  The
\* embedding model is a collaborator outside the repository; it is stood in
\* for by a fixed symmetric function of the two texts that is maximal for
\* equal texts.
SimilarityTenths(a, b) ==
    IF a = b THEN 10
    ELSE IF Keywords(a) \cap Keywords(b) # {} THEN 5
    ELSE 0

\* lines 195-199, as an exact fraction: with s the similarity in tenths and
\* d = now - qa_time in hours,
\*   similarity * 0.7 + (1 / (1 + d / 24)) * 0.3 = (7 s (24 + d) + 720) / (100 (24 + d))
EmbeddingScore(question, qa, now) ==
    LET d == now - qa.time
    IN [num |-> 7 * SimilarityTenths(question, qa.embedding.of) * (24 + d) + 720,
        den |-> 100 * (24 + d)]

\* line 228
OverlapScore(question, qa) ==
    LET keywords == Keywords(question)
    IN IF keywords = {} THEN [num |-> 0, den |-> 1]
       ELSE [num |-> Cardinality(keywords \cap Keywords(qa.question)),
             den |-> Cardinality(keywords)]

\* comparison of two scores (the denominators are positive)
ScoreLess(a, b) == a.num * b.den < b.num * a.den

ScoreEqual(a, b) == a.num * b.den = b.num * a.den

RECURSIVE InsertByScore(_, _)

\* a variant of InsertByScore that sorts without reverse=True
InsertAscending(sorted, item) ==
    IF sorted = <<>> THEN <<item>>
    ELSE IF ~ScoreLess(item.score, sorted[Len(sorted)].score) THEN Append(sorted, item)
    ELSE Append(InsertByScore(SubSeq(sorted, 1, Len(sorted) - 1), item), sorted[Len(sorted)])

\* sorted(scored_qa, key=lambda x: x[0], reverse=True): descending, and stable,
\* so an item goes behind the items that score as much
InsertByScore(sorted, item) ==
    IF sorted = <<>> THEN <<item>>
    ELSE IF ~ScoreLess(sorted[Len(sorted)].score, item.score) THEN Append(sorted, item)
    ELSE Append(InsertByScore(SubSeq(sorted, 1, Len(sorted) - 1), item), sorted[Len(sorted)])

RECURSIVE SortByScore(_)
SortByScore(scored) ==
    IF scored = <<>> THEN <<>>
    ELSE InsertByScore(SortByScore(SubSeq(scored, 1, Len(scored) - 1)), scored[Len(scored)])

\* sorted_qa[:max_pairs], for max_pairs >= 0; the pairs are named by their
\* position in qa_cache
TopPairs(scored, max_pairs) ==
    LET sorted_qa == SortByScore(scored)
        n == IF max_pairs < Len(sorted_qa) THEN max_pairs ELSE Len(sorted_qa)
    IN [i \in 1..n |-> sorted_qa[i].pos]

\* lines 209-235
fallback_keyword_matching(qa, question, max_pairs) ==
    TopPairs([i \in 1..Len(qa) |-> [score |-> OverlapScore(question, qa[i]), pos |-> i]],
             max_pairs)

\* lines 180-183: the embedding of a pair that has none is computed and kept
BackfillEmbeddings(qa) ==
    [i \in 1..Len(qa) |->
        IF qa[i].embedding.form = "absent"
        THEN [qa[i] EXCEPT !.embedding = [form |-> "ndarray", of |-> qa[i].question]]
        ELSE qa[i]]

\* what datetime.now() returns at each pair of the loop when the clock does
\* not advance while the loop runs
SameReading(qa, now) == [i \in 1..Len(qa) |-> now]

\* lines 143-207.  load_ok: the import and the construction of the embedding
\* model succeed; encode_ok: the embedding computations of this call succeed;
\* now[i]: what datetime.now() returns at line 195 for the i-th pair, the
\* clock being read anew for each pair of the loop.
\* The value tells whether the call raised, the positions returned, and the
\* history and the model attribute after the call.
get_related_qa(qa, model, question, max_pairs, load_ok, encode_ok, now) ==
    IF qa = <<>>
    THEN [raised |-> FALSE, ret |-> <<>>, qa |-> qa, model |-> model, path |-> "empty"]
    ELSE IF model = "unloaded" /\ ~load_ok
    THEN [raised |-> FALSE, ret |-> fallback_keyword_matching(qa, question, max_pairs),
          qa |-> qa, model |-> model, path |-> "keyword"]
    ELSE IF ~encode_ok
    THEN [raised |-> TRUE, ret |-> <<>>, qa |-> qa, model |-> "loaded", path |-> "embedding"]
    ELSE LET filled == BackfillEmbeddings(qa)
         IN [raised |-> FALSE,
             ret |-> TopPairs([i \in 1..Len(filled) |->
                                 [score |-> EmbeddingScore(question, filled[i], now[i]),
                                  pos |-> i]],
                              max_pairs),
             qa |-> filled, model |-> "loaded", path |-> "embedding"]

\* the default of max_pairs, line 143
DefaultMaxPairs == 3

(***************************************************************************)
(* BatchProcessor: prompt assembly.  A prompt is kept as its parts: which  *)
(* instruction header precedes them, the transcript context (or none), the *)
(* "Q: ... A: ..." blocks of the ranked history, the blocks of the earlier *)
(* answers of the batch, and the question.                                 *)
(***************************************************************************)
\* The instruction header of a prompt is the text in front of its sections,
\* kept as its two paragraphs: the opening sentences and the paragraph on
\* timestamp citation.  Each of the three prompt texts of the code is written
\* out where it stands.
\* lines 156-158
StandaloneHeader ==
    <<"Please answer the following question based on the video transcript. If the information is not found in the transcript, please indicate this clearly.",
      "IMPORTANT: When referencing information from the transcript, ALWAYS include the timestamp in square brackets like this: [HH:MM:SS]. For example: \"The speaker mentions at [00:01:30] that...\"">>

\* lines 212-214
CachedContentHeader ==
    <<"Please answer the following question based on the video transcript. If the information is not found in the transcript, please indicate this clearly.",
      "IMPORTANT: When referencing information from the transcript, ALWAYS include the timestamp in square brackets like this: [HH:MM:SS]. For example: \"The speaker mentions at [00:01:30] that...\"">>

\* lines 499-502
InterconnectedHeader ==
    <<"Please answer the following question based on the video transcript and previous answers.\nIf the information is not found in the transcript, please indicate this clearly.",
      "IMPORTANT: When referencing information from the transcript, ALWAYS include the timestamp in square brackets like this: [HH:MM:SS]. For example: \"The speaker mentions at [00:01:30] that...\"">>

QABlocks(qa, positions) ==
    [i \in 1..Len(positions) |->
        [question |-> qa[positions[i]].question, answer |-> qa[positions[i]].answer]]

\* lines 141-166
create_prompt(question, qa, related, d) ==
    [header |-> StandaloneHeader,
     transcript |-> <<get_transcript_context(d, <<>>, DefaultMaxChars)>>,
     history |-> QABlocks(qa, related),
     batch |-> <<>>,
     question |-> question]

\* lines 200-218: the prompt that replaces it when a provider cache id is set
create_cached_prompt(question, qa, related) ==
    [header |-> CachedContentHeader,
     transcript |-> <<>>,
     history |-> QABlocks(qa, related),
     batch |-> <<>>,
     question |-> question]

\* lines 470-510
create_interconnected_prompt(question, previous_answers, qa, related, d) ==
    [header |-> InterconnectedHeader,
     transcript |-> <<get_transcript_context(d, <<>>, DefaultMaxChars)>>,
     history |-> QABlocks(qa, related),
     batch |-> [i \in 1..Len(previous_answers) |->
                  [question |-> previous_answers[i].question,
                   answer |-> previous_answers[i].answer]],
     question |-> question]

(***************************************************************************)
(* The inputs of the model.                                                *)
(***************************************************************************)
T1 == TsText(0, 0, 1)

T2 == TsText(0, 1, 5)

T3 == TsFracText(0, 2, 0, 500)

QTopic == <<"What", "topic">>

QSpeaker == <<"what", "speaker">>

\* the questions a caller may ask
Questions == {QTopic, QSpeaker}

\* the question lists of a run
QuestionLists == UNION {[1..n -> Questions] : n \in 0..MaxQuestions}

\* what the remote model may answer in a run: a cited answer, and a denial
CitedResponse == <<Word("at"), Bracket(T2), Word("it"), Word("starts")>>

DenialResponse == <<Word("This"), Word("is"), Word("Not"), Word("mentioned")>>

Responses == {CitedResponse, DenialResponse}

\* the transcript of the session, as main.py stores it after chunk_transcript
SessionChunks ==
    <<[start_time |-> T1, end_time |-> T2, text |-> <<"h", "i">>],
      [start_time |-> T2, end_time |-> T3, text |-> <<"y", "o">>]>>

\* a pair left in qa_cache.json by an earlier session
EarlierPair == NewPair(QTopic, <<Word("intro")>>, <<>>, 0)

\* BatchProcessor.max_batch_size
max_batch_size == 10

\* the requests_per_minute the processor of the model is built with
requests_per_minute == 2

\* AsyncLimiter(requests_per_minute, 60), line 40, is a leaky bucket: a call is
\* admitted while the level is below requests_per_minute and adds one to it,
\* and the level leaks at requests_per_minute per 60 seconds.  Time is kept
\* in periods of 60 / requests_per_minute seconds, in each of which one
\* permit leaks; requests_per_minute periods make up 60 seconds.
NoAdmissions == [i \in 1..requests_per_minute |-> 0]

\* n calls admitted in the current period and none in the periods before
Admitted(n) == [NoAdmissions EXCEPT ![requests_per_minute] = n]

\* one more call admitted in the current period
Admit(w) == IF w = <<>> THEN w ELSE [w EXCEPT ![Len(w)] = @ + 1]

\* a period has passed
PeriodPassed(w) == IF w = <<>> THEN w ELSE Tail(w) \o <<0>>

(***************************************************************************)
(* One question, from the remote call to its result.                       *)
(***************************************************************************)
SuccessResult(question, answer, timestamps) ==
    [question |-> question, answer |-> answer, timestamps |-> timestamps, success |-> TRUE]

FailureResult(question, error) ==
    [question |-> question, error |-> error, success |-> FALSE]

\* the outcomes of client.models.generate_content: it raises, or returns a text
CallOutcomes == {[raised |-> TRUE, response |-> <<>>]}
                \cup {[raised |-> FALSE, response |-> r] : r \in Responses}

\* a variant of Succeeded that returns the success without add_qa_pair
SucceededUnrecorded(question, pp, qa, now) ==
    [result |-> SuccessResult(question, pp.answer, pp.timestamps), qa |-> qa]

\* lines 381-389: add_qa_pair with the final answer and timestamps, and the
\* success result
Succeeded(question, pp, qa, now) ==
    [result |-> SuccessResult(question, pp.answer, pp.timestamps),
     qa |-> Append(qa, NewPair(question, pp.answer, pp.timestamps, now))]

\* lines 220-398 (and 539-717): the remote call, the post-processing of its
\* response, add_qa_pair, and the except clause around them
AnswerQuestion(question, outcome, qa, vid, d, now) ==
    IF outcome.raised
    THEN [result |-> FailureResult(question, "generate_content raised"), qa |-> qa]
    ELSE Succeeded(question, PostProcess(outcome.response, vid, d), qa, now)

\* lines 391-398, reached from get_related_qa: no remote call is made
RankingFailed(question, ranked) ==
    [result |-> FailureResult(question, "get_related_qa raised"),
     qa |-> ranked.qa, model |-> ranked.model, called |-> FALSE, prompt |-> <<>>]

\* what a task leaves behind after its remote call
Called(answered, ranked, prompt) ==
    [result |-> answered.result, qa |-> answered.qa, model |-> ranked.model,
     called |-> TRUE, prompt |-> prompt]

\* lines 220-398 with the prompt that was chosen
CallWithPrompt(question, outcome, ranked, prompt) ==
    Called(AnswerQuestion(question, outcome, ranked.qa, video_id, transcript_cache, clock),
           ranked, prompt)

\* lines 200-218: with a provider cache id the ranker has been called a second
\* time and the prompt is rebuilt without the transcript
CachedContent(question, outcome, second) ==
    IF second.raised THEN RankingFailed(question, second)
    ELSE CallWithPrompt(question, outcome, second,
                        create_cached_prompt(question, second.qa, second.ret))

\* lines 188-224, first being the outcome of the ranker call of _create_prompt
AfterCreatePrompt(question, outcome, load_ok, encode_ok, first) ==
    IF first.raised THEN RankingFailed(question, first)
    ELSE IF google_cache_id # ""
    THEN CachedContent(question, outcome,
                       get_related_qa(first.qa, first.model, question, DefaultMaxPairs,
                                      load_ok, encode_ok,
                                      SameReading(first.qa, clock)))
    ELSE CallWithPrompt(question, outcome, first,
                        create_prompt(question, first.qa, first.ret, transcript_cache))

\* lines 186-398: the body of _process_single_question_async once the limiter
\* has admitted it.  load_ok and encode_ok say how the embedding model behaves
\* during this body.
ProcessSingleQuestion(question, outcome, load_ok, encode_ok) ==
    AfterCreatePrompt(question, outcome, load_ok, encode_ok,
                      get_related_qa(qa_cache, embedder, question, DefaultMaxPairs,
                                     load_ok, encode_ok, SameReading(qa_cache, clock)))

\* a variant of Persist that writes the files before the history is touched
PersistBeforeAppend(qa) ==
    IF qa = qa_cache
    THEN UNCHANGED <<transcript_file, qa_file>>
    ELSE /\ transcript_file' = SavedFile(transcript_cache)
         /\ qa_file' = SavedFile(Serializable(qa_cache))

\* _save_cache runs whenever the history was touched: lines 114 and 183
Persist(qa) ==
    IF qa = qa_cache
    THEN UNCHANGED <<transcript_file, qa_file>>
    ELSE /\ transcript_file' = SavedFile(transcript_cache)
         /\ qa_file' = SavedFile(Serializable(qa))

\* no URL: None, or the empty string of a cached video without video_info.json
NoUrl == [site |-> "", id |-> ""]

\* main.py lines 417-419, and every store and processor that is used
\* outside the menu.  cache is the number of the ContextCache object the
\* global refers to, counted in the order of construction, 0 for None;
\* processor is 0 for None and otherwise the number of the ContextCache
\* object the processor was built on.
NoSession == [YOUTUBE_VIDEO_URL |-> NoUrl, cache |-> 0, processor |-> 0]

Idle == [mode |-> "idle", questions |-> <<>>, i |-> 0, pc |-> "none", prompt |-> <<>>]

(***************************************************************************)
(* process_batch_async, lines 400-422.                                     *)
(***************************************************************************)
process_batch_async(questions) ==
    /\ run.mode = "idle"
    /\ run' = [mode |-> "batch", questions |-> questions, i |-> 0, pc |-> "group",
               prompt |-> <<>>]
    /\ results' = <<>>
    /\ tasks' = <<>>
    /\ sent' = <<>>
    /\ UNCHANGED <<transcript_cache, qa_cache, transcript_file, qa_file, embedder, clock,
                   video_id, google_cache_id, supports_caching, session, level, window, all_answers, call>>

\* a variant of CreateTasks that puts all remaining questions into one group
CreateTasksOfAll ==
    /\ run.mode = "batch" /\ run.pc = "group"
    /\ run.i < Len(run.questions)
    /\ tasks' = [j \in 1..(Len(run.questions) - run.i) |->
                   [question |-> run.questions[run.i + j], pc |-> "created",
                    result |-> <<>>]]
    /\ run' = [run EXCEPT !.pc = "gather"]
    /\ UNCHANGED <<transcript_cache, qa_cache, transcript_file, qa_file, embedder, clock,
                   video_id, google_cache_id, supports_caching, session, level, window, results, all_answers, sent, call>>

\* lines 406-416: the tasks of the next group are created
CreateTasks ==
    /\ run.mode = "batch" /\ run.pc = "group"
    /\ run.i < Len(run.questions)
    /\ LET last == IF run.i + max_batch_size < Len(run.questions)
                   THEN run.i + max_batch_size ELSE Len(run.questions)
       IN tasks' = [j \in 1..(last - run.i) |->
                      [question |-> run.questions[run.i + j], pc |-> "created",
                       result |-> <<>>]]
    /\ run' = [run EXCEPT !.pc = "gather"]
    /\ UNCHANGED <<transcript_cache, qa_cache, transcript_file, qa_file, embedder, clock,
                   video_id, google_cache_id, supports_caching, session, level, window, results, all_answers, sent, call>>

\* a task is inside the block of line 186: it holds a permit and has not
\* reached its return statement
Running(j) == tasks[j].pc = "running"

\* Nothing in the block of lines 186-389 awaits: the prompt is built by
\* synchronous calls and client.models.generate_content (lines 220-224) is a
\* synchronous, blocking call.  While a task is inside the block the event
\* loop runs no other task.
EventLoopFree == \A k \in 1..Len(tasks) : ~Running(k)

\* lines 188-398: a task that holds a permit runs to its return statement
RunBody(j, outcome, load_ok, encode_ok) ==
    /\ run.mode = "batch" /\ run.pc = "gather"
    /\ j \in 1..Len(tasks)
    /\ Running(j)
    /\ \E done \in {ProcessSingleQuestion(tasks[j].question, outcome, load_ok, encode_ok)} :
       /\ tasks' = [tasks EXCEPT ![j] = [@ EXCEPT !.pc = "done", !.result = <<done.result>>]]
       /\ qa_cache' = done.qa
       /\ embedder' = done.model
       /\ Persist(done.qa)
       /\ sent' = IF done.called
                  THEN Append(sent, [q |-> run.i + j, prompt |-> done.prompt,
                                     raised |-> outcome.raised])
                  ELSE sent
       /\ UNCHANGED <<transcript_cache, clock, video_id, google_cache_id, supports_caching, session, level, window,
                      run, results, all_answers, call>>

\* the limiter admits task j: acquire returns and the task enters the block
AdmitTask(j) ==
    /\ level < requests_per_minute
    /\ level' = level + 1
    /\ window' = Admit(window)
    /\ tasks' = [tasks EXCEPT ![j] = [@ EXCEPT !.pc = "running"]]
    /\ UNCHANGED <<transcript_cache, qa_cache, transcript_file, qa_file, embedder, clock,
                   video_id, google_cache_id, supports_caching, session, run, results, all_answers, sent, call>>

\* the event loop starts the tasks in the order of their creation; line 186,
\* async with self.rate_limiter: a task is admitted at once when the limiter
\* has capacity
TaskStart(j) ==
    /\ run.mode = "batch" /\ run.pc = "gather"
    /\ j \in 1..Len(tasks)
    /\ tasks[j].pc = "created"
    /\ \A k \in 1..(j - 1) : tasks[k].pc # "created"
    /\ EventLoopFree
    /\ AdmitTask(j)

\* line 186 without capacity: the task is suspended inside acquire
TaskSuspend(j) ==
    /\ run.mode = "batch" /\ run.pc = "gather"
    /\ j \in 1..Len(tasks)
    /\ tasks[j].pc = "created"
    /\ \A k \in 1..(j - 1) : tasks[k].pc # "created"
    /\ EventLoopFree
    /\ level >= requests_per_minute
    /\ tasks' = [tasks EXCEPT ![j] = [@ EXCEPT !.pc = "waiting"]]
    /\ UNCHANGED <<transcript_cache, qa_cache, transcript_file, qa_file, embedder, clock,
                   video_id, google_cache_id, supports_caching, session, level, window, run, results, all_answers, sent, call>>

\* a suspended task is admitted once capacity has leaked back
TaskResume(j) ==
    /\ run.mode = "batch" /\ run.pc = "gather"
    /\ j \in 1..Len(tasks)
    /\ tasks[j].pc = "waiting"
    /\ \A k \in 1..Len(tasks) : tasks[k].pc # "created"
    /\ EventLoopFree
    /\ AdmitTask(j)

\* lines 419-420: gather returns the results in task order
GatherReturns ==
    /\ run.mode = "batch" /\ run.pc = "gather"
    /\ \A j \in 1..Len(tasks) : tasks[j].pc = "done"
    /\ results' = results \o [j \in 1..Len(tasks) |-> tasks[j].result[1]]
    /\ tasks' = <<>>
    /\ run' = [run EXCEPT !.i = run.i + max_batch_size, !.pc = "group"]
    /\ UNCHANGED <<transcript_cache, qa_cache, transcript_file, qa_file, embedder, clock,
                   video_id, google_cache_id, supports_caching, session, level, window, all_answers, sent, call>>

\* line 422
BatchReturns ==
    /\ run.mode = "batch" /\ run.pc = "group"
    /\ run.i >= Len(run.questions)
    /\ run' = [run EXCEPT !.pc = "returned"]
    /\ UNCHANGED <<transcript_cache, qa_cache, transcript_file, qa_file, embedder, clock,
                   video_id, google_cache_id, supports_caching, session, level, window, tasks, results, all_answers, sent, call>>

(***************************************************************************)
(* process_interconnected_questions_async, lines 434-468.                  *)
(***************************************************************************)
process_interconnected_questions_async(questions) ==
    /\ run.mode = "idle"
    /\ run' = [mode |-> "inter", questions |-> questions, i |-> 0, pc |-> "loop",
               prompt |-> <<>>]
    /\ results' = <<>>
    /\ all_answers' = <<>>
    /\ tasks' = <<>>
    /\ sent' = <<>>
    /\ UNCHANGED <<transcript_cache, qa_cache, transcript_file, qa_file, embedder, clock,
                   video_id, google_cache_id, supports_caching, session, level, window, call>>

\* a variant of RememberAnswer without the test of line 461
RememberEveryAnswer(answers, question, result) ==
    Append(answers, [question |-> question,
                     answer |-> IF result.success THEN result.answer ELSE <<>>,
                     timestamps |-> IF result.success THEN result.timestamps ELSE <<>>])

\* lines 460-466: a success joins all_answers, a failure does not
RememberAnswer(answers, question, result) ==
    IF result.success
    THEN Append(answers, [question |-> question, answer |-> result.answer,
                          timestamps |-> result.timestamps])
    ELSE answers

\* lines 457-466 and 539-717: the call with the prompt, its result appended,
\* and a success added to all_answers
InterBody(qa, prompt, outcome) ==
    \E answered \in {AnswerQuestion(run.questions[run.i + 1], outcome, qa, video_id,
                                    transcript_cache, clock)} :
       /\ level' = level + 1
       /\ window' = Admit(window)
       /\ qa_cache' = answered.qa
       /\ Persist(answered.qa)
       /\ results' = Append(results, answered.result)
       /\ all_answers' = RememberAnswer(all_answers, run.questions[run.i + 1],
                                        answered.result)
       /\ sent' = Append(sent, [q |-> run.i + 1, prompt |-> prompt,
                                raised |-> outcome.raised])
       /\ run' = [run EXCEPT !.i = run.i + 1, !.pc = "loop", !.prompt = <<>>]

\* line 483: the ranker call of _create_interconnected_prompt
InterRanking(load_ok, encode_ok) ==
    get_related_qa(qa_cache, embedder, run.questions[run.i + 1], DefaultMaxPairs,
                   load_ok, encode_ok, SameReading(qa_cache, clock))

\* line 454: the prompt of the next question
InterPrompt(ranked) ==
    create_interconnected_prompt(run.questions[run.i + 1], all_answers, ranked.qa,
                                 ranked.ret, transcript_cache)

\* lines 450-466 when ranking succeeds and the limiter has capacity
InterStep(outcome, load_ok, encode_ok) ==
    /\ run.mode = "inter" /\ run.pc = "loop"
    /\ run.i < Len(run.questions)
    /\ level < requests_per_minute
    /\ \E ranked \in {InterRanking(load_ok, encode_ok)} :
          /\ ~ranked.raised
          /\ embedder' = ranked.model
          /\ InterBody(ranked.qa, InterPrompt(ranked), outcome)
    /\ UNCHANGED <<transcript_cache, clock, video_id, google_cache_id, supports_caching, session, tasks, call>>

\* lines 454 and 525 when the limiter has no capacity: the coroutine is
\* suspended inside acquire, holding the prompt it has built
InterSuspend(load_ok, encode_ok) ==
    /\ run.mode = "inter" /\ run.pc = "loop"
    /\ run.i < Len(run.questions)
    /\ level >= requests_per_minute
    /\ \E ranked \in {InterRanking(load_ok, encode_ok)} :
          /\ ~ranked.raised
          /\ embedder' = ranked.model
          /\ qa_cache' = ranked.qa
          /\ Persist(ranked.qa)
          /\ run' = [run EXCEPT !.pc = "waiting", !.prompt = <<InterPrompt(ranked)>>]
    /\ UNCHANGED <<transcript_cache, clock, video_id, google_cache_id, supports_caching, session, level, window, tasks,
                   results, all_answers, sent, call>>

\* the suspended coroutine is admitted
InterResume(outcome) ==
    /\ run.mode = "inter" /\ run.pc = "waiting"
    /\ level < requests_per_minute
    /\ InterBody(qa_cache, run.prompt[1], outcome)
    /\ UNCHANGED <<transcript_cache, embedder, clock, video_id, google_cache_id, supports_caching, session, tasks, call>>

\* line 454 when get_related_qa raises: nothing catches the exception, which
\* leaves process_interconnected_questions_async
InterRaises(load_ok, encode_ok) ==
    /\ run.mode = "inter" /\ run.pc = "loop"
    /\ run.i < Len(run.questions)
    /\ \E ranked \in {InterRanking(load_ok, encode_ok)} :
          /\ ranked.raised
          /\ embedder' = ranked.model
    /\ run' = [run EXCEPT !.pc = "raised"]
    /\ UNCHANGED <<transcript_cache, qa_cache, transcript_file, qa_file, clock, video_id,
                   google_cache_id, supports_caching, session, level, window, tasks, results, all_answers, sent, call>>

\* line 468
InterReturns ==
    /\ run.mode = "inter" /\ run.pc = "loop"
    /\ run.i >= Len(run.questions)
    /\ run' = [run EXCEPT !.pc = "returned"]
    /\ UNCHANGED <<transcript_cache, qa_cache, transcript_file, qa_file, embedder, clock,
                   video_id, google_cache_id, supports_caching, session, level, window, tasks, results, all_answers, sent, call>>

(***************************************************************************)
(* The environment of a run, and the specification of the orchestrators.   *)
(***************************************************************************)
\* a period passes: the limiter leaks one permit, and the oldest period
\* leaves the last 60 seconds
Leak ==
    /\ level > 0 \/ window # PeriodPassed(window)
    /\ level' = IF level > 0 THEN level - 1 ELSE 0
    /\ window' = PeriodPassed(window)
    /\ UNCHANGED <<transcript_cache, qa_cache, transcript_file, qa_file, embedder, clock,
                   video_id, google_cache_id, supports_caching, session, run, tasks, results, all_answers, sent, call>>

\* an hour passes between two calls
Tick ==
    /\ run.mode = "idle"
    /\ clock < MaxClock
    /\ clock' = clock + 1
    /\ UNCHANGED <<transcript_cache, qa_cache, transcript_file, qa_file, embedder,
                   video_id, google_cache_id, supports_caching, session, level, window, run, tasks, results, all_answers,
                   sent, call>>

\* a variant of clear_cache without its _save_cache
ClearWithoutSave ==
    /\ run.mode = "idle"
    /\ transcript_cache # <<>> \/ qa_cache # <<>>
    /\ transcript_cache' = <<>>
    /\ qa_cache' = <<>>
    /\ UNCHANGED <<transcript_file, qa_file>>
    /\ call' = [op |-> "clear_cache", chunks |-> Len(transcript_cache),
                pairs |-> Len(qa_cache)]
    /\ UNCHANGED <<embedder, clock, video_id, google_cache_id, supports_caching, session, level, window, run, tasks, results,
                   all_answers, sent>>

\* lines 238-241, between two runs; the call is kept with the numbers of
\* chunks and pairs the store held
clear_cache ==
    /\ run.mode = "idle"
    /\ transcript_cache # <<>> \/ qa_cache # <<>>
    /\ transcript_cache' = <<>>
    /\ qa_cache' = <<>>
    /\ transcript_file' = SavedFile(<<>>)
    /\ qa_file' = SavedFile(<<>>)
    /\ call' = [op |-> "clear_cache", chunks |-> Len(transcript_cache),
                pairs |-> Len(qa_cache)]
    /\ UNCHANGED <<embedder, clock, video_id, google_cache_id, supports_caching, session, level, window, run, tasks, results,
                   all_answers, sent>>

NoCall == [op |-> "none"]

\* a session of main.py: the cache of the video is loaded from its directory,
\* the processor is built on it with the video id set, earlier runs of the
\* session may have used up permits of the limiter, and no run is in progress
Init ==
    /\ transcript_cache = AddChunksLoop(<<>>, SessionChunks, 0)
    /\ transcript_file = SavedFile(transcript_cache)
    /\ qa_cache \in {<<>>, <<EarlierPair>>}
    /\ qa_file = SavedFile(qa_cache)
    /\ embedder = "unloaded"
    /\ clock = 1
    /\ video_id = "abc123"
    /\ google_cache_id \in {"", "cachedContents/1"}
    /\ supports_caching = TRUE
    /\ session = NoSession
    /\ level \in {0, requests_per_minute}
    /\ window = <<>>
    /\ run = Idle
    /\ tasks = <<>>
    /\ results = <<>>
    /\ all_answers = <<>>
    /\ sent = <<>>
    /\ call = NoCall

Next ==
    \/ \E questions \in QuestionLists : process_batch_async(questions)
    \/ CreateTasks
    \/ \E j \in 1..MaxQuestions : TaskStart(j)
    \/ \E j \in 1..MaxQuestions : TaskSuspend(j)
    \/ \E j \in 1..MaxQuestions : TaskResume(j)
    \/ \E j \in 1..MaxQuestions, outcome \in CallOutcomes, load_ok \in BOOLEAN,
          encode_ok \in BOOLEAN : RunBody(j, outcome, load_ok, encode_ok)
    \/ GatherReturns
    \/ BatchReturns
    \/ \E questions \in QuestionLists : process_interconnected_questions_async(questions)
    \/ \E outcome \in CallOutcomes, load_ok \in BOOLEAN, encode_ok \in BOOLEAN :
          InterStep(outcome, load_ok, encode_ok)
    \/ \E load_ok \in BOOLEAN, encode_ok \in BOOLEAN : InterSuspend(load_ok, encode_ok)
    \/ \E outcome \in CallOutcomes : InterResume(outcome)
    \/ \E load_ok \in BOOLEAN, encode_ok \in BOOLEAN : InterRaises(load_ok, encode_ok)
    \/ InterReturns
    \/ Leak
    \/ clear_cache

Spec == Init /\ [][Next]_vars

(***************************************************************************)
(* The orchestrators: what a run returns.                                  *)
(***************************************************************************)
\* the results the run has produced so far, each with the position of its
\* question in the input list: those gathered, and those of finished tasks
Produced ==
    {[q |-> i, result |-> results[i]] : i \in 1..Len(results)}
    \cup {[q |-> run.i + j, result |-> tasks[j].result[1]] :
             j \in {k \in 1..Len(tasks) : tasks[k].pc = "done"}}

Successes == Cardinality({p \in Produced : p.result.success})

\* the remote call made for question i of the run raised
RemoteCallRaised(i) == \E k \in 1..Len(sent) : sent[k].q = i /\ sent[k].raised

\* one result per question, in input order, a failure carrying an error
OneResultPerQuestion ==
    /\ Len(results) = Len(run.questions)
    /\ \A i \in 1..Len(results) :
          /\ results[i].question = run.questions[i]
          /\ ~results[i].success => results[i].error # ""

\* C1: when process_batch_async returns, there are as many results as
\* questions, result i belongs to question i, and result i is a failure with
\* an error exactly when the remote call of question i raised: every other
\* result is a success.
BatchCompleteness ==
    (run.mode = "batch" /\ run.pc = "returned") =>
        /\ OneResultPerQuestion
        /\ \A i \in 1..Len(results) : results[i].success = ~RemoteCallRaised(i)

\* C2: process_interconnected_questions_async always completes: it never ends
\* by raising, and when it has ended there is one result per question in
\* input order.
InterconnectedCompleteness ==
    /\ run.mode = "inter" => run.pc # "raised"
    /\ (run.mode = "inter" /\ run.pc = "returned") => OneResultPerQuestion

\* the "Q: ... A: ..." blocks of the successes among rs, in order
RECURSIVE SuccessBlocks(_)
SuccessBlocks(rs) ==
    IF rs = <<>> THEN <<>>
    ELSE LET r == rs[Len(rs)]
             before == SuccessBlocks(SubSeq(rs, 1, Len(rs) - 1))
         IN IF r.success
            THEN Append(before, [question |-> r.question, answer |-> r.answer])
            ELSE before

PairsKept(old, new) ==
    /\ Len(new) >= Len(old)
    /\ \A i \in 1..Len(old) :
          /\ new[i].question = old[i].question
          /\ new[i].answer = old[i].answer
          /\ new[i].timestamps = old[i].timestamps
          /\ new[i].time = old[i].time
          /\ old[i].embedding.form # "absent" => new[i].embedding = old[i].embedding

\* one step of the history: clear, or the pairs are kept and the history
\* grows by the pair of the success the step produced, if it produced one
HistoryStep ==
    \/ call'.op = "clear_cache" /\ call' # call
    \/ /\ PairsKept(qa_cache, qa_cache')
       /\ Len(qa_cache') - Len(qa_cache) = Successes' - Successes
       /\ Len(qa_cache') <= Len(qa_cache) + 1
       /\ Len(qa_cache') = Len(qa_cache) + 1 =>
             \E p \in Produced' \ Produced :
                /\ p.result.success
                /\ qa_cache'[Len(qa_cache')].question = p.result.question
                /\ qa_cache'[Len(qa_cache')].answer = p.result.answer
                /\ qa_cache'[Len(qa_cache')].timestamps = p.result.timestamps
                /\ qa_cache'[Len(qa_cache')].embedding = NoEmbedding

\* C4: over a run of either kind the history only grows, by exactly one pair
\* for each success result and by none for a failure result; the pairs
\* stored before keep their place, question, answer and timestamps (an
\* embedding may be filled in), except when the cache is cleared.
HistoryGrowth == [][HistoryStep]_vars

\* C4 happens: a run over two questions has returned one success and one
\* failure, and the history is the earlier pair, its embedding filled in,
\* followed by the pair of the success
HistoryGrowthWitness ==
    /\ run.pc = "returned"
    /\ Len(results) = 2
    /\ Successes = 1
    /\ Len(qa_cache) = 2
    /\ qa_cache[1].question = EarlierPair.question
    /\ qa_cache[1].embedding.form = "ndarray"

(***************************************************************************)
(* Answer post-processing on its own: the responses the remote model may   *)
(* give are drawn from PostResponses, and each is taken through lines      *)
(* 226-389 of _process_single_question_async.                              *)
(***************************************************************************)
T4 == TsText(1, 1, 5)

RangeOf(a, b) == a \o <<" ", "-", " ">> \o b

\* a time as some subtitle files write it, and a cue identifier
ShortTime == <<"1", ":", "2", ":", "3">>

NotATime == <<"a", "b", "c">>

\* the store of a video whose subtitle file holds a cue "1:2:3 --> abc"
PostChunks ==
    SessionChunks \o <<[start_time |-> ShortTime, end_time |-> NotATime, text |-> <<"o">>]>>

PostResponses ==
    {CitedResponse,
     DenialResponse,
     <<Word("NOT"), Word("Mentioned"), Bracket(T1)>>,
     <<Word("Cannot"), Word("find"), Word("it"), Word("not"), Word("mentioned"),
       Bracket(RangeOf(T1, T2))>>,
     <<Bracket(T1), Word("until"), Bracket(RangeOf(T2, T3))>>,
     <<Bracket(T3), Word("and"), Bracket(T4), Word("and"), Bracket(T3)>>,
     <<Bracket(ShortTime), Word("near"), Raw(T2), Word("or"), Raw(NotATime)>>,
     <<Word("it"), Word("starts")>>,
     <<Word("NONE")>>,
     <<>>}

\* lines 226-389 for a response that generate_content returned: the result is
\* returned and the pair written
HandleResponse(question, response) ==
    /\ run.mode = "idle"
    /\ Len(results) < MaxQuestions
    /\ \E answered \in {Succeeded(question,
                                  PostProcess(response, video_id, transcript_cache),
                                  qa_cache, clock)} :
          /\ results' = Append(results, answered.result)
          /\ qa_cache' = answered.qa
          /\ Persist(answered.qa)
    /\ call' = [op |-> "generate_content", question |-> question, response |-> response]
    /\ UNCHANGED <<transcript_cache, embedder, clock, video_id, google_cache_id, supports_caching, session, level, window,
                   run, tasks, all_answers, sent>>

\* BatchProcessor.video_id is set by main.py only when the video has an id
InitPost ==
    /\ transcript_cache = AddChunksLoop(<<>>, PostChunks, 0)
    /\ transcript_file = SavedFile(transcript_cache)
    /\ qa_cache = <<>>
    /\ qa_file = SavedFile(qa_cache)
    /\ embedder = "unloaded"
    /\ clock = 1
    /\ video_id \in {"", "abc123"}
    /\ google_cache_id = ""
    /\ supports_caching = TRUE
    /\ session = NoSession
    /\ level = 0
    /\ window = <<>>
    /\ run = Idle
    /\ tasks = <<>>
    /\ results = <<>>
    /\ all_answers = <<>>
    /\ sent = <<>>
    /\ call = NoCall

NextPost ==
    \E question \in Questions, response \in PostResponses : HandleResponse(question, response)

SpecPost == InitPost /\ [][NextPost]_vars

\* the response of the last call, its result, and the pair written for it
LastResult == results[Len(results)]

LastPair == qa_cache[Len(qa_cache)]

\* the answer after the link step of the last call
PostLinkAnswer == LinkStep(CoerceAnswer(call.response), video_id)

\* the words of phrase stand in answer one after the other, whatever their case
Mentions(answer, phrase) ==
    \E i \in 0..(Len(answer) - Len(phrase)) :
        \A j \in 1..Len(phrase) :
            /\ answer[i + j].k = "w"
            /\ LowerWord(answer[i + j].w) = LowerWord(phrase[j])

Denies(answer) == \E i \in 1..Len(no_info_phrases) : Mentions(answer, no_info_phrases[i])

MarkedStrongly(answer) ==
    \/ Mentions(answer, <<"no", "information">>)
    \/ Mentions(answer, <<"not", "found">>)
    \/ Mentions(answer, <<"cannot", "find">>)

\* C5: when the answer after the link step contains a phrase of the
\* no-information list in any case, the timestamps of the result and of the
\* stored pair are empty whatever the answer cited (so nothing inferred is
\* added either), and the answer is the notice followed by the post-link
\* answer exactly when that answer contains no strong marker, and the
\* post-link answer itself otherwise.
NoInfoSuppression ==
    (call.op = "generate_content" /\ Denies(PostLinkAnswer)) =>
        /\ LastResult.timestamps = <<>>
        /\ LastPair.timestamps = <<>>
        /\ LastResult.answer = IF MarkedStrongly(PostLinkAnswer)
                               THEN PostLinkAnswer
                               ELSE Words(NoticeWords) \o PostLinkAnswer
        /\ LastPair.answer = LastResult.answer

\* C5 happens: a denial in capitals that cites a time got the notice and no
\* timestamps
NoInfoSuppressionWitness ==
    /\ call.op = "generate_content"
    /\ call.response = <<Word("NOT"), Word("Mentioned"), Bracket(T1)>>
    /\ LastResult.timestamps = <<>>
    /\ SubSeq(LastResult.answer, 1, Len(NoticeWords)) = Words(NoticeWords)

\* HH:MM:SS with an optional .mmm, and nothing else
IsClockTime(t) ==
    /\ Len(t) = 8 \/ Len(t) = 12
    /\ t[1] \in Digits /\ t[2] \in Digits /\ t[3] = ":"
    /\ t[4] \in Digits /\ t[5] \in Digits /\ t[6] = ":"
    /\ t[7] \in Digits /\ t[8] \in Digits
    /\ Len(t) = 12 => (t[9] = "." /\ t[10] \in Digits /\ t[11] \in Digits /\ t[12] \in Digits)

\* the start of a candidate: what stands before its first hyphen, without the
\* blanks around it; the candidate itself when it has no hyphen
RECURSIVE StartOf(_)
StartOf(candidate) ==
    IF candidate = <<>> \/ Head(candidate) = "-" THEN <<>>
    ELSE LET rest == StartOf(Tail(candidate))
         IN IF rest = <<>> /\ Head(candidate) \in Whitespace THEN <<>>
            ELSE <<Head(candidate)>> \o rest

\* the candidates whose start is a clock time, each replaced by its start,
\* in the order of the candidates
RECURSIVE StartsOfValid(_)
StartsOfValid(candidates) ==
    IF candidates = <<>> THEN <<>>
    ELSE (IF IsClockTime(StartOf(Head(candidates)))
          THEN <<StartOf(Head(candidates))>> ELSE <<>>)
         \o StartsOfValid(Tail(candidates))

\* ["00:01:30", "00:02:00 - 00:02:15", "1:2:3", "abc"]
ExampleCandidates ==
    <<TsText(0, 1, 30), RangeOf(TsText(0, 2, 0), TsText(0, 2, 15)), ShortTime, NotATime>>

\* the candidates of the last call: the list of timestamps that reaches the
\* validation of lines 367-379
LastCandidates == PostProcess(call.response, video_id, transcript_cache).candidates

\* C6: every timestamp of a success result and of a pair written by the
\* post-processor is a clock time HH:MM:SS[.mmm]; the timestamps of a result
\* are the candidates in their order, a range reduced to its start and the
\* candidates that are no clock time left out; the list of the example
\* yields 00:01:30 and 00:02:00.
TimestampValidity ==
    /\ \A i \in 1..Len(results) :
          results[i].success =>
             \A k \in 1..Len(results[i].timestamps) : IsClockTime(results[i].timestamps[k])
    /\ \A i \in 1..Len(qa_cache) :
          \A k \in 1..Len(qa_cache[i].timestamps) : IsClockTime(qa_cache[i].timestamps[k])
    /\ call.op = "generate_content" =>
          /\ LastResult.timestamps = StartsOfValid(LastCandidates)
          /\ LastPair.timestamps = LastResult.timestamps
    /\ ValidateTimestamps(ExampleCandidates) = <<TsText(0, 1, 30), TsText(0, 2, 0)>>

\* C6 happens: an answer that cites a time and then a range has the time and
\* the start of the range as its timestamps
TimestampValidityWitness ==
    /\ call.op = "generate_content"
    /\ call.response = <<Bracket(T1), Word("until"), Bracket(RangeOf(T2, T3))>>
    /\ LastCandidates = <<T1, RangeOf(T2, T3)>>
    /\ LastResult.timestamps = <<T1, T2>>
    /\ LastPair.timestamps = <<T1, T2>>

\* hours*3600 + minutes*60 + floor(seconds) of a text that starts HH:MM:SS
ClockSeconds(t) ==
    (10 * DigitValue(t[1]) + DigitValue(t[2])) * 3600
    + (10 * DigitValue(t[4]) + DigitValue(t[5])) * 60
    + 10 * DigitValue(t[7]) + DigitValue(t[8])

\* a bracket of the answer that holds a citation: a clock time alone, or a
\* clock time, a hyphen between optional blanks, and a clock time
IsCitation(token) ==
    /\ token.k = "br"
    /\ \/ IsClockTime(token.body)
       \/ \E i \in 8..Len(token.body), j \in 1..Len(token.body) :
             /\ i < j
             /\ IsClockTime(SubSeq(token.body, 1, i))
             /\ IsClockTime(SubSeq(token.body, j, Len(token.body)))
             /\ \E h \in (i + 1)..(j - 1) :
                   /\ token.body[h] = "-"
                   /\ \A b \in ((i + 1)..(j - 1)) \ {h} : token.body[b] \in Whitespace

\* C7: with a video id every bracketed citation of the answer carries a link
\* to that video, and each link of it has t = hours*3600 + minutes*60 +
\* floor(seconds) of the cited time, the start time for a range; a bracket
\* that is no citation carries none.  Without a video id the link step
\* leaves the answer as it was.
CitationLinking ==
    call.op = "generate_content" =>
        IF video_id # ""
        THEN /\ Len(PostLinkAnswer) = Len(CoerceAnswer(call.response))
             /\ \A i \in 1..Len(LastResult.answer) :
                   LET token == LastResult.answer[i]
                   IN /\ IsCitation(token) =>
                            /\ token.links # <<>>
                            /\ \A k \in 1..Len(token.links) :
                                  /\ token.links[k].vid = video_id
                                  /\ token.links[k].t = ClockSeconds(token.body)
                      /\ (token.k = "br" /\ ~IsCitation(token)) => token.links = <<>>
        ELSE /\ PostLinkAnswer = CoerceAnswer(call.response)
             /\ \A i \in 1..Len(LastResult.answer) :
                   LastResult.answer[i].k = "br" => LastResult.answer[i].links = <<>>

\* C7 happens: with video id abc123 the citation [00:01:05] of the answer links
\* to t=65
CitationLinkingWitness ==
    /\ call.op = "generate_content"
    /\ video_id = "abc123"
    /\ call.response = CitedResponse
    /\ LastResult.answer[2].body = TsText(0, 1, 5)
    /\ LastResult.answer[2].links = <<[vid |-> "abc123", t |-> 65]>>

(***************************************************************************)
(* The transcript store on its own: ContextCache driven through            *)
(* add_transcript_chunks, get_transcript_context and clear_cache.          *)
(***************************************************************************)
\* the chunks a caller may add: two keys, and for each a text and a text that
\* ends in a blank, as chunk_transcript joins a last segment that has no text
StoreChunks ==
    {[start_time |-> k[1], end_time |-> k[2], text |-> t] :
        k \in {<<T1, T2>>, <<T2, T3>>}, t \in {<<"h", "i">>, <<"o", " ">>}}

ChunkLists == UNION {[1..n -> StoreChunks] : n \in 0..MaxChunks}

TimestampArgs == {<<>>, <<T2>>, <<T1, T2>>}

Budgets == {0} \cup (MinChars..MaxChars) \cup {DefaultMaxChars}

\* lines 88-100
add_transcript_chunks(chunks) ==
    /\ run.mode = "idle"
    /\ transcript_cache' = AddChunksLoop(transcript_cache, chunks, 0)
    /\ transcript_file' = SavedFile(transcript_cache')
    /\ qa_file' = SavedFile(Serializable(qa_cache))
    /\ call' = [op |-> "add_transcript_chunks", chunks |-> chunks]
    /\ UNCHANGED <<qa_cache, embedder, clock, video_id, google_cache_id, supports_caching, session, level, window, run, tasks,
                   results, all_answers, sent>>

\* lines 116-141, called with timestamps and max_chars; ret is what it returns
GetTranscriptContext(timestamps, max_chars) ==
    /\ run.mode = "idle"
    /\ call' = [op |-> "get_transcript_context", timestamps |-> timestamps,
                max_chars |-> max_chars,
                ret |-> get_transcript_context(transcript_cache, timestamps, max_chars)]
    /\ UNCHANGED <<transcript_cache, qa_cache, transcript_file, qa_file, embedder, clock,
                   video_id, google_cache_id, supports_caching, session, level, window, run, tasks, results, all_answers, sent>>

\* a ContextCache on a directory without cache files, or on the directory of
\* the session
InitStore ==
    /\ transcript_cache \in {<<>>, AddChunksLoop(<<>>, SessionChunks, 0)}
    /\ transcript_file = IF transcript_cache = <<>> THEN MissingFile
                         ELSE SavedFile(transcript_cache)
    /\ qa_cache = <<>>
    /\ qa_file = IF transcript_cache = <<>> THEN MissingFile ELSE SavedFile(qa_cache)
    /\ embedder = "unloaded"
    /\ clock = 1
    /\ video_id = ""
    /\ google_cache_id = ""
    /\ supports_caching = TRUE
    /\ session = NoSession
    /\ level = 0
    /\ window = <<>>
    /\ run = Idle
    /\ tasks = <<>>
    /\ results = <<>>
    /\ all_answers = <<>>
    /\ sent = <<>>
    /\ call = NoCall

NextStore ==
    \/ \E chunks \in ChunkLists : add_transcript_chunks(chunks)
    \/ \E timestamps \in TimestampArgs, max_chars \in Budgets :
          GetTranscriptContext(timestamps, max_chars)
    \/ clear_cache

SpecStore == InitStore /\ [][NextStore]_vars

\* "[start - end]" and "[start - end] text" of a stored chunk
ChunkHeader(chunk) ==
    <<"[">> \o chunk.start_time \o <<" ", "-", " ">> \o chunk.end_time \o <<"]">>

ChunkShown(chunk) == ChunkHeader(chunk) \o <<" ">> \o chunk.text

IsSuffix(sub, s) == Len(sub) <= Len(s) /\ SubSeq(s, Len(s) - Len(sub) + 1, Len(s)) = sub

\* the chunk stands in the returned string in full, closing the string or
\* followed by the blank line that separates it from the next chunk
ShownInFull(chunk, ret) ==
    \/ IsSuffix(ChunkShown(chunk), ret)
    \/ IsSubstring(ChunkShown(chunk) \o <<"\n", "\n">>, ret)

ShownNowhere(chunk, ret) == ~IsSubstring(ChunkHeader(chunk), ret)

\* C8 as the contract states it: the returned string is no longer than
\* max_chars, and every chunk of the store stands in it in full, as
\* "[start - end] text", or not at all.
ContextBudget ==
    call.op = "get_transcript_context" =>
        /\ Len(call.ret) <= call.max_chars
        /\ \A i \in 1..Len(transcript_cache) :
              \/ ShownInFull(transcript_cache[i], call.ret)
              \/ ShownNowhere(transcript_cache[i], call.ret)

\* C8 as the code has it: the returned string is no longer than max_chars,
\* and every chunk of the store stands in it in full or not at all, except
\* that the chunk that closes the string stands there without the blanks that
\* end its text.
ContextBudgetStripped ==
    call.op = "get_transcript_context" =>
        /\ Len(call.ret) <= call.max_chars
        /\ \A i \in 1..Len(transcript_cache) :
              \/ ShownInFull(transcript_cache[i], call.ret)
              \/ ShownNowhere(transcript_cache[i], call.ret)
              \/ IsSuffix(RStrip(ChunkShown(transcript_cache[i])), call.ret)

\* C8 happens: of a store of two chunks the budget admits the first, whose
\* text ends in a blank, and not the second
ContextBudgetWitness ==
    /\ call.op = "get_transcript_context"
    /\ call.timestamps = <<>>
    /\ Len(transcript_cache) = 2
    /\ call.ret # <<>>
    /\ \E i, j \in 1..2 :
          /\ transcript_cache[i].text = <<"o", " ">>
          /\ IsSuffix(RStrip(ChunkShown(transcript_cache[i])), call.ret)
          /\ ShownNowhere(transcript_cache[j], call.ret)
          /\ Len(call.ret) + Len(ChunkText(transcript_cache[j])) > call.max_chars

\* the (start_time, end_time) key of a chunk or of a stored chunk
KeyOf(chunk) == <<chunk.start_time, chunk.end_time>>

\* the last position of chunks that writes the key k, 0 when none does
LatestWrite(chunks, k) ==
    LET written == {p \in 1..Len(chunks) : KeyOf(chunks[p]) = k}
    IN IF written = {} THEN 0 ELSE CHOOSE p \in written : \A q \in written : q <= p

\* add_transcript_chunks(chunks) took the store from old to new: new holds one
\* chunk for each key of old and of chunks and no other; a key that chunks
\* writes carries the text of its latest write and that write's position in
\* chunks as index, a key that chunks does not write keeps its chunk; and
\* adding chunks once more changes nothing
Upserted(old, chunks, new) ==
    /\ \A i, j \in 1..Len(new) : KeyOf(new[i]) = KeyOf(new[j]) => i = j
    /\ {KeyOf(new[i]) : i \in 1..Len(new)}
          = {KeyOf(old[i]) : i \in 1..Len(old)} \cup {KeyOf(chunks[p]) : p \in 1..Len(chunks)}
    /\ \A i \in 1..Len(new) :
          LET p == LatestWrite(chunks, KeyOf(new[i]))
          IN IF p > 0
             THEN new[i].text = chunks[p].text /\ new[i].index = p - 1
             ELSE \E h \in 1..Len(old) : old[h] = new[i]
    /\ AddChunksLoop(new, chunks, 0) = new

\* C9: every call of add_transcript_chunks leaves the store with exactly one
\* chunk per distinct (start_time, end_time) key, each carrying the text and
\* index of the latest write for its key, and leaves it so that adding the
\* same chunk list again does not change it.
IdempotentUpsert ==
    [][call'.op = "add_transcript_chunks" => Upserted(transcript_cache, call'.chunks,
                                                      transcript_cache')]_vars

\* C9 happens: a list that writes one key twice was added to a store that
\* held the key, and the store holds the key once, with the second text and
\* the index 1
IdempotentUpsertWitness ==
    /\ call.op = "add_transcript_chunks"
    /\ call.chunks = <<[start_time |-> T1, end_time |-> T2, text |-> <<"h", "i">>],
                       [start_time |-> T1, end_time |-> T2, text |-> <<"o", " ">>]>>
    /\ Len(transcript_cache) = 2
    /\ transcript_cache[1].start_time = T1
    /\ transcript_cache[1].text = <<"o", " ">>
    /\ transcript_cache[1].index = 1
    /\ transcript_cache[2].text = <<"y", "o">>

(***************************************************************************)
(* The QA history on its own: ContextCache driven through add_qa_pair,     *)
(* get_related_qa and clear_cache while the clock advances.                *)
(***************************************************************************)
\* lines 103-114
add_qa_pair(question, answer, related_timestamps) ==
    /\ run.mode = "idle"
    /\ Len(qa_cache) < MaxHistory
    /\ qa_cache' = Append(qa_cache, NewPair(question, answer, related_timestamps, clock))
    /\ transcript_file' = SavedFile(transcript_cache)
    /\ qa_file' = SavedFile(Serializable(qa_cache'))
    /\ call' = [op |-> "add_qa_pair", question |-> question]
    /\ UNCHANGED <<transcript_cache, embedder, clock, video_id, google_cache_id, supports_caching, session, level, window, run,
                   tasks, results, all_answers, sent>>

\* the readings of the clock a loop over n pairs can get, from the hour
\* `from` on: the clock never goes back, and it may advance while the
\* embedding of a pair is computed and the store is saved (lines 180-183)
ClockReadings(n, from) ==
    {now \in [1..n -> from..MaxClock] : \A i \in 1..(n - 1) : now[i] <= now[i + 1]}

\* lines 143-207, called with question and max_pairs; the call either raises
\* or returns the pairs at the positions ret of the history
GetRelatedQa(question, max_pairs, load_ok, encode_ok) ==
    /\ run.mode = "idle"
    /\ \E now \in ClockReadings(Len(qa_cache), clock) :
       \E ranked \in {get_related_qa(qa_cache, embedder, question, max_pairs, load_ok,
                                     encode_ok, now)} :
          \* the model is loaded only where there is none yet (lines 160-169), and
          \* embeddings are computed only past the keyword fallback (line 174 on)
          /\ load_ok \/ (qa_cache # <<>> /\ embedder = "unloaded")
          /\ encode_ok \/ ranked.path = "embedding"
          \* the clock is read at line 195 only, in the loop that scores the pairs
          /\ (ranked.path = "embedding" /\ ~ranked.raised)
                \/ now = SameReading(qa_cache, clock)
          /\ qa_cache' = ranked.qa
          /\ embedder' = ranked.model
          /\ Persist(ranked.qa)
          /\ clock' = IF ranked.path = "embedding" /\ ~ranked.raised
                      THEN now[Len(now)] ELSE clock
          /\ call' = [op |-> "get_related_qa", question |-> question,
                      max_pairs |-> max_pairs, now |-> now, raised |-> ranked.raised,
                      ret |-> ranked.ret, path |-> ranked.path,
                      load_ok |-> load_ok, encode_ok |-> encode_ok]
    /\ UNCHANGED <<transcript_cache, video_id, google_cache_id, supports_caching, session, level, window, run, tasks,
                   results, all_answers, sent>>

InitRank ==
    /\ transcript_cache = <<>>
    /\ transcript_file = SavedFile(transcript_cache)
    /\ qa_cache \in {<<>>, <<EarlierPair>>}
    /\ qa_file = SavedFile(qa_cache)
    /\ embedder = "unloaded"
    /\ clock = 1
    /\ video_id = ""
    /\ google_cache_id = ""
    /\ supports_caching = TRUE
    /\ session = NoSession
    /\ level = 0
    /\ window = <<>>
    /\ run = Idle
    /\ tasks = <<>>
    /\ results = <<>>
    /\ all_answers = <<>>
    /\ sent = <<>>
    /\ call = NoCall

NextRank ==
    \/ \E question \in Questions : add_qa_pair(question, <<Word("intro")>>, <<>>)
    \/ \E question \in Questions, max_pairs \in 0..MaxHistory, load_ok \in BOOLEAN,
          encode_ok \in BOOLEAN : GetRelatedQa(question, max_pairs, load_ok, encode_ok)
    \/ Tick
    \/ clear_cache

SpecRank == InitRank /\ [][NextRank]_vars

\* the score the last call of get_related_qa gave the pair at a position
RankScore(pos) ==
    IF call.path = "keyword"
    THEN OverlapScore(call.question, qa_cache[pos])
    ELSE EmbeddingScore(call.question, qa_cache[pos], call.now[pos])

\* C10: what get_related_qa(question, k) returns holds at most k pairs, each
\* a pair of the history and none twice, in descending order of score, pairs
\* of equal score in the order of their insertion; it is empty when the
\* history is empty.  The path taken, embedding or lexical overlap, does not
\* matter.
RankerResultShape ==
    (call.op = "get_related_qa" /\ ~call.raised) =>
        /\ Len(call.ret) <= call.max_pairs
        /\ \A i \in 1..Len(call.ret) : call.ret[i] \in 1..Len(qa_cache)
        /\ \A i, j \in 1..Len(call.ret) : call.ret[i] = call.ret[j] => i = j
        /\ \A i \in 1..(Len(call.ret) - 1) :
              \/ ScoreLess(RankScore(call.ret[i + 1]), RankScore(call.ret[i]))
              \/ /\ ScoreEqual(RankScore(call.ret[i + 1]), RankScore(call.ret[i]))
                 /\ call.ret[i] < call.ret[i + 1]
        /\ qa_cache = <<>> => call.ret = <<>>

\* C10 happens: of a history of three pairs the embedding path returned two,
\* the later of two pairs that score the same left out and a pair that scores
\* more put first
RankerResultShapeWitness ==
    /\ call.op = "get_related_qa"
    /\ ~call.raised
    /\ call.path = "embedding"
    /\ Len(qa_cache) = 3
    /\ call.max_pairs = 2
    /\ call.ret = <<3, 1>>
    /\ ScoreEqual(RankScore(1), RankScore(2))
    /\ ScoreLess(RankScore(1), RankScore(3))

\* the lexical overlap of a question with the question of a pair as a
\* fraction: the share of the question's lower-cased words that the pair's
\* question holds, and 0 for a question without words
OverlapRatio(question, pair) ==
    LET question_words == {LowerWord(question[i]) : i \in 1..Len(question)}
        pair_words == {LowerWord(pair.question[i]) : i \in 1..Len(pair.question)}
    IN IF question_words = {} THEN [num |-> 0, den |-> 1]
       ELSE [num |-> Cardinality(question_words \cap pair_words),
             den |-> Cardinality(question_words)]

\* position a of the history goes before position b in a ranking by overlap
OverlapBefore(question, a, b) ==
    \/ ScoreLess(OverlapRatio(question, qa_cache[b]), OverlapRatio(question, qa_cache[a]))
    \/ /\ ScoreEqual(OverlapRatio(question, qa_cache[b]), OverlapRatio(question, qa_cache[a]))
       /\ a < b

\* ret names the first max_pairs positions of the history ranked by overlap
RankedByOverlap(question, max_pairs, ret) ==
    /\ Len(ret) = (IF max_pairs < Len(qa_cache) THEN max_pairs ELSE Len(qa_cache))
    /\ \A i \in 1..Len(ret) : ret[i] \in 1..Len(qa_cache)
    /\ \A i \in 1..(Len(ret) - 1) : OverlapBefore(question, ret[i], ret[i + 1])
    /\ \A i \in 1..Len(ret) : \A b \in 1..Len(qa_cache) :
          (\A j \in 1..Len(ret) : ret[j] # b) => OverlapBefore(question, ret[i], b)

\* the last call of get_related_qa found the embedding capability
\* unavailable, or an embedding computation of it failed
EmbeddingUnavailableOrFailed ==
    \/ call.path = "keyword"
    \/ call.path = "embedding" /\ ~call.encode_ok

\* C11: no call of get_related_qa raises; when the embedding capability is
\* unavailable or an embedding computation fails, the call returns the pairs
\* ranked by lexical overlap |question_words n pair_question_words| /
\* |question_words|, the overlap being 0 for a question without words.
RankerNeverFails ==
    call.op = "get_related_qa" =>
        /\ ~call.raised
        /\ EmbeddingUnavailableOrFailed =>
              RankedByOverlap(call.question, call.max_pairs, call.ret)

\* the part of C11 that the code keeps: a call that cannot load the embedding
\* model returns the ranking by lexical overlap
KeywordFallbackRanks ==
    (call.op = "get_related_qa" /\ call.path = "keyword") =>
        /\ ~call.raised
        /\ RankedByOverlap(call.question, call.max_pairs, call.ret)

\* the more recent of the pairs at two positions of the history
MoreRecent(a, b) == qa_cache[a].time > qa_cache[b].time

\* the similarity of the question of the last call and the pair at a position
SimilarityTo(pos) == SimilarityTenths(call.question, qa_cache[pos].question)

\* position a comes before position b in what the last call returned: a is
\* returned, and b is returned behind it or not at all
ReturnedBefore(a, b) ==
    \E i \in 1..Len(call.ret) :
        /\ call.ret[i] = a
        /\ \A j \in 1..i : call.ret[j] # b

\* C12: on the embedding path, of two pairs of the history with the same
\* similarity to the question and different creation times, both in the
\* past, the more recent is ranked before the older.
RankingRecency ==
    (call.op = "get_related_qa" /\ ~call.raised /\ call.path = "embedding") =>
        \A a, b \in 1..Len(qa_cache) :
            (/\ SimilarityTo(a) = SimilarityTo(b)
             /\ MoreRecent(a, b)
             /\ \E i \in 1..Len(call.ret) : call.ret[i] \in {a, b})
            => ReturnedBefore(a, b)

\* C12 with the clock standing still while the loop runs: the readings of
\* datetime.now() are the same for every pair
RankingRecencyOneReading ==
    (/\ call.op = "get_related_qa" /\ ~call.raised /\ call.path = "embedding"
     /\ \A i, j \in 1..Len(call.now) : call.now[i] = call.now[j]) =>
        \A a, b \in 1..Len(qa_cache) :
            (/\ SimilarityTo(a) = SimilarityTo(b)
             /\ MoreRecent(a, b)
             /\ \E i \in 1..Len(call.ret) : call.ret[i] \in {a, b})
            => ReturnedBefore(a, b)

(***************************************************************************)
(* The prompts of a run, as the remote calls received them.                *)
(***************************************************************************)
\* the blocks of a prompt's history section are pairs of the history, at
\* most DefaultMaxPairs of them
HistoryShown(prompt) ==
    /\ Len(prompt.history) <= DefaultMaxPairs
    /\ \A i \in 1..Len(prompt.history) : \E p \in 1..Len(qa_cache) :
          /\ prompt.history[i].question = qa_cache[p].question
          /\ prompt.history[i].answer = qa_cache[p].answer

\* the transcript section of a prompt that shows the transcript context
TranscriptShown == <<get_transcript_context(transcript_cache, <<>>, DefaultMaxChars)>>

\* C13: with a provider cache id active the prompt of every remote call, in
\* the independent and in the interconnected mode, has no transcript body
\* but has the ranked history and the question; without a cache id it has
\* the transcript context.
ProviderCachePromptMode ==
    \A k \in 1..Len(sent) :
        /\ sent[k].prompt.question = run.questions[sent[k].q]
        /\ HistoryShown(sent[k].prompt)
        /\ google_cache_id # "" => sent[k].prompt.transcript = <<>>
        /\ google_cache_id = "" => sent[k].prompt.transcript = TranscriptShown

\* the part of C13 that the code keeps: the independent mode, and either
\* mode without a cache id
ProviderCachePromptModeIndependent ==
    (run.mode = "batch" \/ google_cache_id = "") =>
        \A k \in 1..Len(sent) :
            /\ sent[k].prompt.question = run.questions[sent[k].q]
            /\ HistoryShown(sent[k].prompt)
            /\ google_cache_id # "" => sent[k].prompt.transcript = <<>>
            /\ google_cache_id = "" => sent[k].prompt.transcript = TranscriptShown

\* C14: the instruction header in front of the transcript, the history and
\* the question is the same text, byte for byte, in the standalone prompt,
\* the cached-content prompt and the interconnected prompt: every prompt a
\* run sends, whatever its mode, opens with the header of the standalone
\* prompt.
HeaderUniformity ==
    \A k \in 1..Len(sent) : sent[k].prompt.header = create_prompt(<<>>, <<>>, <<>>, <<>>).header

\* the part of C14 that the code keeps: the two prompts of the independent
\* mode open alike, and the paragraph on timestamp citation is the same in
\* every prompt
CitationInstructionUniformity ==
    \A k \in 1..Len(sent) :
        /\ sent[k].prompt.header[2] = create_prompt(<<>>, <<>>, <<>>, <<>>).header[2]
        /\ run.mode = "batch" =>
              sent[k].prompt.header = create_prompt(<<>>, <<>>, <<>>, <<>>).header

(***************************************************************************)
(* The tasks of a group and the history they share.                        *)
(***************************************************************************)
\* a pair of the history with all its parts
WholePair(pair) == DOMAIN pair = {"question", "answer", "timestamps", "time", "embedding"}

\* the file holds the pairs of the history, in their order
FileHoldsHistory ==
    /\ qa_file.state = "written"
    /\ Len(qa_file.data) = Len(qa_cache)
    /\ \A i \in 1..Len(qa_cache) :
          /\ qa_file.data[i].question = qa_cache[i].question
          /\ qa_file.data[i].answer = qa_cache[i].answer
          /\ qa_file.data[i].timestamps = qa_cache[i].timestamps
          /\ qa_file.data[i].time = qa_cache[i].time

\* the tasks of the group that are between acquiring their permit and their
\* return statement
TasksInBlock == {j \in 1..Len(tasks) : tasks[j].pc = "running"}

LimiterQuestionLists == {[i \in 1..n |-> QTopic] : n \in 1..MaxLimiterQuestions}

LimiterOutcomes == {[raised |-> TRUE, response |-> <<>>],
                    [raised |-> FALSE, response |-> CitedResponse]}

InitLimiter ==
    /\ transcript_cache = AddChunksLoop(<<>>, SessionChunks, 0)
    /\ transcript_file = SavedFile(transcript_cache)
    /\ qa_cache = <<>>
    /\ qa_file = SavedFile(qa_cache)
    /\ embedder = "unloaded"
    /\ clock = 1
    /\ video_id = "abc123"
    /\ google_cache_id = ""
    /\ supports_caching = TRUE
    /\ session = NoSession
    /\ level = 0
    /\ window = NoAdmissions
    /\ run = Idle
    /\ tasks = <<>>
    /\ results = <<>>
    /\ all_answers = <<>>
    /\ sent = <<>>
    /\ call = NoCall

NextLimiter ==
    \/ \E questions \in LimiterQuestionLists : process_batch_async(questions)
    \/ CreateTasks
    \/ \E j \in 1..MaxLimiterQuestions : TaskStart(j)
    \/ \E j \in 1..MaxLimiterQuestions : TaskSuspend(j)
    \/ \E j \in 1..MaxLimiterQuestions : TaskResume(j)
    \/ \E j \in 1..MaxLimiterQuestions, outcome \in LimiterOutcomes :
          RunBody(j, outcome, TRUE, TRUE)
    \/ GatherReturns
    \/ BatchReturns
    \/ \E questions \in LimiterQuestionLists :
          process_interconnected_questions_async(questions)
    \/ \E outcome \in LimiterOutcomes : InterStep(outcome, TRUE, TRUE)
    \/ InterSuspend(TRUE, TRUE)
    \/ \E outcome \in LimiterOutcomes : InterResume(outcome)
    \/ InterReturns
    \/ Leak

SpecLimiter == InitLimiter /\ [][NextLimiter]_vars

\* the calls the limiter admitted in the last 60 seconds
RECURSIVE SumOf(_)
SumOf(w) == IF w = <<>> THEN 0 ELSE w[1] + SumOf(Tail(w))

\* the questions of the run whose coroutine is suspended in the limiter
Suspended ==
    {run.i + j : j \in {k \in 1..Len(tasks) : tasks[k].pc = "waiting"}}
    \cup (IF run.mode = "inter" /\ run.pc = "waiting" THEN {run.i + 1} ELSE {})

\* C16: every remote call, in either mode, is started after a permit of the
\* one limiter was acquired; in any 60 seconds at most requests_per_minute
\* calls are admitted; a call beyond the budget is suspended, not dropped or
\* failed (a suspended question has no result until it is admitted).
RateLimiting ==
    /\ SumOf(window) <= requests_per_minute
    /\ \A q \in Suspended : \A p \in Produced : p.q # q
    /\ level <= requests_per_minute

\* the parts of C16 that the code keeps.  A call is made only by a coroutine
\* that holds a permit: a task inside its block, or the interconnected loop
\* in the step that takes the permit.
CallsHoldPermits ==
    [][Len(sent') > Len(sent) =>
          \/ \E j \in 1..Len(tasks) : tasks[j].pc = "running" /\ tasks'[j].pc = "done"
          \/ run.mode = "inter" /\ level < requests_per_minute /\ level' = level + 1]_vars

\* The level of the limiter stays within requests_per_minute, and a
\* suspended question has no result.
SuspendedNotDropped ==
    /\ level <= requests_per_minute
    /\ \A q \in Suspended : \A p \in Produced : p.q # q

\* Time passes, the event loop wakes a suspended coroutine when the limiter
\* has capacity, and a task inside its block reaches its return statement.
SpecLimiterFair ==
    /\ SpecLimiter
    /\ WF_vars(Leak)
    /\ WF_vars(\E j \in 1..MaxLimiterQuestions : TaskResume(j))
    /\ WF_vars(\E j \in 1..MaxLimiterQuestions, outcome \in LimiterOutcomes :
                  RunBody(j, outcome, TRUE, TRUE))
    /\ WF_vars(\E outcome \in LimiterOutcomes : InterResume(outcome))

\* a suspended question is admitted later
SuspendedAdmittedLater ==
    \A q \in 1..MaxLimiterQuestions : (q \in Suspended) ~> (q \notin Suspended)

(***************************************************************************)
(* Runs of more than one group: process_batch_async of a new processor     *)
(* with more than max_batch_size questions.  The remote model answers the  *)
(* questions on the topic, and its call fails for the others.              *)
(***************************************************************************)
GroupQuestionLists ==
    {[i \in 1..n |-> IF i % 2 = 1 THEN QTopic ELSE QSpeaker] :
        n \in (max_batch_size + 1)..MaxGroupQuestions}

GroupOutcome(question) ==
    IF question = QTopic
    THEN [raised |-> FALSE, response |-> CitedResponse]
    ELSE [raised |-> TRUE, response |-> <<>>]

InitGroups ==
    /\ transcript_cache = AddChunksLoop(<<>>, SessionChunks, 0)
    /\ transcript_file = SavedFile(transcript_cache)
    /\ qa_cache = <<>>
    /\ qa_file = SavedFile(qa_cache)
    /\ embedder = "unloaded"
    /\ clock = 1
    /\ video_id = "abc123"
    /\ google_cache_id = ""
    /\ supports_caching = TRUE
    /\ session = NoSession
    /\ level = 0
    /\ window = <<>>
    /\ run = Idle
    /\ tasks = <<>>
    /\ results = <<>>
    /\ all_answers = <<>>
    /\ sent = <<>>
    /\ call = NoCall

\* task j is the first or the last of the suspended tasks.  Of the orders in
\* which the limiter may wake the suspended tasks of a group of ten, the
\* runs of more than one group take those that wake the tasks from either
\* end of the queue.
AtEndOfQueue(j) ==
    LET waiting == {k \in 1..Len(tasks) : tasks[k].pc = "waiting"}
    IN j \in waiting /\ ((\A k \in waiting : j <= k) \/ (\A k \in waiting : k <= j))

\* the limiter wakes task j
WakeTask(j) == j <= Len(tasks) /\ AtEndOfQueue(j) /\ TaskResume(j)

\* task j runs from its permit to its return statement
AnswerTask(j) ==
    j <= Len(tasks) /\ RunBody(j, GroupOutcome(tasks[j].question), TRUE, TRUE)

NextGroups ==
    \/ \E questions \in GroupQuestionLists : process_batch_async(questions)
    \/ CreateTasks
    \/ \E j \in 1..max_batch_size : TaskStart(j)
    \/ \E j \in 1..max_batch_size : TaskSuspend(j)
    \/ \E j \in 1..max_batch_size : WakeTask(j)
    \/ \E j \in 1..max_batch_size : AnswerTask(j)
    \/ GatherReturns
    \/ BatchReturns
    \/ Leak

SpecGroups == InitGroups /\ [][NextGroups]_vars

\* the questions before the group of question q: those of the groups of
\* max_batch_size questions that precede it
BeforeGroupOf(q) == ((q - 1) \div 10) * 10

\* the smaller of two numbers
Least(a, b) == IF a < b THEN a ELSE b

\* C17: process_batch_async takes the questions in consecutive groups of at
\* most max_batch_size = 10, and the remote call of a question is not started
\* before every question of the groups before its own has its result in the
\* list of results.
GroupBarrier ==
    run.mode = "batch" =>
        /\ Len(tasks) <= 10
        /\ run.i % 10 = 0
        /\ tasks # <<>> => Len(tasks) = Least(10, Len(run.questions) - run.i)
        /\ \A j \in 1..Len(tasks) : tasks[j].question = run.questions[run.i + j]
        /\ \A j \in 1..Len(tasks) :
              tasks[j].pc \in {"running", "done"} =>
                  /\ Len(results) >= BeforeGroupOf(run.i + j)
                  /\ BeforeGroupOf(run.i + j) = run.i
        /\ \A k \in 1..Len(sent) :
              \A q \in 1..BeforeGroupOf(sent[k].q) :
                  \E p \in Produced : p.q = q

\* C17 happens: the task of the eleventh question is inside its block, and
\* the ten questions of the first group have their results
GroupBarrierWitness ==
    /\ run.mode = "batch"
    /\ Len(run.questions) > 10
    /\ run.i = 10
    /\ Len(results) = 10
    /\ tasks # <<>>
    /\ tasks[1].pc = "running"
    /\ Len(sent) = 10

(***************************************************************************)
(* The remote calls of a group.                                            *)
(***************************************************************************)
\* task k is the next task of the group that the event loop starts
NextToStart(k) ==
    /\ tasks[k].pc = "created"
    /\ \A i \in 1..(k - 1) : tasks[i].pc # "created"

\* C18: within a group of the independent mode the remote calls of different
\* questions are issued concurrently: while the task of one question is in
\* its remote call and the limiter has a permit left, the task of the next
\* question can be admitted and start its call, so that there is an
\* execution in which one call starts before another has returned.
ConcurrentFanOut ==
    run.mode = "batch" =>
        \A j, k \in 1..Len(tasks) :
            (tasks[j].pc = "running" /\ NextToStart(k) /\ level < requests_per_minute)
            => ENABLED TaskStart(k)

\* what the code does instead: the remote calls of a group are made one at a
\* time, no task being admitted while another is between its permit and its
\* return statement
CallsOneAtATime ==
    /\ Cardinality(TasksInBlock) <= 1
    /\ \A j, k \in 1..Len(tasks) :
          (tasks[j].pc = "running" /\ j # k) => ~ENABLED (TaskStart(k) \/ TaskResume(k))

(***************************************************************************)
(* The cache directory: a store that is written to, cleared and built anew *)
(* on its directory, whose two files may be lost or damaged meanwhile.     *)
(***************************************************************************)
\* ContextCache(cache_dir), lines 10-30: a new store on the directory.  When
\* _load_cache raises, no store is built and the caller keeps the one it had.
\* The call is kept with the operation it came after.
NewContextCache ==
    /\ run.mode = "idle"
    /\ \E loaded \in {load_cache(transcript_file, qa_file)} :
          /\ transcript_cache' = IF loaded.raised THEN transcript_cache
                                 ELSE loaded.transcript_cache
          /\ qa_cache' = IF loaded.raised THEN qa_cache ELSE loaded.qa_cache
          /\ embedder' = IF loaded.raised THEN embedder ELSE "unloaded"
          /\ call' = [op |-> "ContextCache", raised |-> loaded.raised,
                      after |-> IF call.op = "clear_cache" THEN call ELSE [op |-> call.op]]
    /\ UNCHANGED <<transcript_file, qa_file, clock, video_id, google_cache_id, supports_caching, session, level, window,
                   run, tasks, results, all_answers, sent>>

\* what may become of a file of the directory behind the back of the program
DamagedFiles == {MissingFile, EmptyFile, MalformedFile, UndecodableFile, UnreadableFile}

TranscriptFileChanges(file) ==
    /\ run.mode = "idle"
    /\ transcript_file # file
    /\ transcript_file' = file
    /\ call' = [op |-> "file changed"]
    /\ UNCHANGED <<transcript_cache, qa_cache, qa_file, embedder, clock, video_id,
                   google_cache_id, supports_caching, session, level, window, run, tasks, results, all_answers, sent>>

QaFileChanges(file) ==
    /\ run.mode = "idle"
    /\ qa_file # file
    /\ qa_file' = file
    /\ call' = [op |-> "file changed"]
    /\ UNCHANGED <<transcript_cache, qa_cache, transcript_file, embedder, clock, video_id,
                   google_cache_id, supports_caching, session, level, window, run, tasks, results, all_answers, sent>>

\* a store as a session of main.py leaves it
InitFiles ==
    /\ transcript_cache \in {<<>>, AddChunksLoop(<<>>, SessionChunks, 0)}
    /\ transcript_file = SavedFile(transcript_cache)
    /\ qa_cache \in {<<>>, <<EarlierPair>>}
    /\ qa_file = SavedFile(qa_cache)
    /\ embedder = "unloaded"
    /\ clock = 1
    /\ video_id = ""
    /\ google_cache_id = ""
    /\ supports_caching = TRUE
    /\ session = NoSession
    /\ level = 0
    /\ window = <<>>
    /\ run = Idle
    /\ tasks = <<>>
    /\ results = <<>>
    /\ all_answers = <<>>
    /\ sent = <<>>
    /\ call = NoCall

NextFiles ==
    \/ add_transcript_chunks(SessionChunks)
    \/ \E question \in Questions : add_qa_pair(question, <<Word("intro")>>, <<T1>>)
    \/ clear_cache
    \/ NewContextCache
    \/ \E file \in DamagedFiles : TranscriptFileChanges(file)
    \/ \E file \in DamagedFiles : QaFileChanges(file)

SpecFiles == InitFiles /\ [][NextFiles]_vars

\* a file of the directory that holds an empty store
HoldsNothing(file) == file.state = "written" /\ Len(file.data) = 0

StartsEmpty(file) == file.state # "written"

\* C20: building a ContextCache never fails because of the two files; each
\* half of the store starts empty when its file is missing, empty or
\* malformed, and is loaded from its file otherwise, whatever the other file.
LoadTolerance ==
    call.op = "ContextCache" =>
        /\ ~call.raised
        /\ StartsEmpty(transcript_file) => Len(transcript_cache) = 0
        /\ ~StartsEmpty(transcript_file) => transcript_cache = transcript_file.data
        /\ StartsEmpty(qa_file) => Len(qa_cache) = 0
        /\ ~StartsEmpty(qa_file) => qa_cache = qa_file.data

\* the part of C20 that the code keeps: when the bytes of both files are
\* UTF-8 text, whatever else is wrong with them
LoadToleranceOfText ==
    (/\ call.op = "ContextCache"
     /\ transcript_file.state # "undecodable"
     /\ qa_file.state # "undecodable") =>
        /\ ~call.raised
        /\ StartsEmpty(transcript_file) => Len(transcript_cache) = 0
        /\ ~StartsEmpty(transcript_file) => transcript_cache = transcript_file.data
        /\ StartsEmpty(qa_file) => Len(qa_cache) = 0
        /\ ~StartsEmpty(qa_file) => qa_cache = qa_file.data

(***************************************************************************)
(* The mutating calls of ContextCache with the writes of _save_cache: each *)
(* of the two writes may fail with an IOError, which _save_cache prints    *)
(* and swallows (lines 78-79 and 85-86).                                   *)
(***************************************************************************)
\* lines 75-79 and 82-86: what a file may hold after its with-block.  The
\* document when open and json.dump succeed; what it held before when open
\* raises the IOError; nothing, or the start of the document, when the write
\* raises it after open(..., 'w') has truncated the file.
WriteOutcomes(file, data) == {SavedFile(data), file, EmptyFile, MalformedFile}

\* lines 88-100, 103-114 and 238-241: a mutating call that leaves the store
\* as d and qa and ends with _save_cache (lines 49-86); it returns normally
\* whatever became of the two writes
MutatingCall(op, d, qa) ==
    /\ run.mode = "idle"
    /\ transcript_cache' = d
    /\ qa_cache' = qa
    /\ \E tfile \in WriteOutcomes(transcript_file, d),
          qfile \in WriteOutcomes(qa_file, Serializable(qa)) :
          /\ transcript_file' = tfile
          /\ qa_file' = qfile
          /\ call' = [op |-> op,
                      written |-> <<tfile = SavedFile(d),
                                    qfile = SavedFile(Serializable(qa))>>]
    /\ UNCHANGED <<embedder, clock, video_id, google_cache_id, supports_caching, session, level, window, run, tasks,
                   results, all_answers, sent>>

\* lines 88-100
AddTranscriptChunksSaving(chunks) ==
    MutatingCall("add_transcript_chunks", AddChunksLoop(transcript_cache, chunks, 0),
                 qa_cache)

\* lines 103-114
AddQaPairSaving(question, answer, related_timestamps) ==
    /\ Len(qa_cache) < MaxHistory
    /\ MutatingCall("add_qa_pair", transcript_cache,
                    Append(qa_cache, NewPair(question, answer, related_timestamps, clock)))

\* lines 238-241
ClearCacheSaving ==
    /\ transcript_cache # <<>> \/ qa_cache # <<>>
    /\ MutatingCall("clear_cache", <<>>, <<>>)

NextSave ==
    \/ \E chunks \in {SessionChunks, <<SessionChunks[1]>>} : AddTranscriptChunksSaving(chunks)
    \/ \E question \in Questions : AddQaPairSaving(question, <<Word("intro")>>, <<T1>>)
    \/ ClearCacheSaving

SpecSave == InitFiles /\ [][NextSave]_vars

\* the calls that change the store
MutatingCalls == {"add_transcript_chunks", "add_qa_pair", "clear_cache"}

\* the chunks (key, index, start_time, end_time, text) and the pairs
\* (question, answer, timestamps, time, in their order) of two stores agree
SameStore(d, qa, other_d, other_qa) ==
    /\ d = other_d
    /\ Len(qa) = Len(other_qa)
    /\ \A i \in 1..Len(qa) :
          /\ qa[i].question = other_qa[i].question
          /\ qa[i].answer = other_qa[i].answer
          /\ qa[i].timestamps = other_qa[i].timestamps
          /\ qa[i].time = other_qa[i].time

\* a ContextCache built now on the directory would hold what the store in
\* memory holds
ReopenedHoldsTheSame ==
    LET loaded == load_cache(transcript_file, qa_file)
    IN /\ ~loaded.raised
       /\ SameStore(transcript_cache, qa_cache, loaded.transcript_cache, loaded.qa_cache)

\* C21: after every completed add_transcript_chunks, add_qa_pair or
\* clear_cache, a ContextCache opened on the same directory holds the same
\* chunks and the same QA pairs, in the same order, as the store in memory.
PersistRoundTrip ==
    call.op \in MutatingCalls => ReopenedHoldsTheSame

\* the part of C21 that the code keeps: the round trip of the calls both of
\* whose writes went through
PersistRoundTripOfWritten ==
    (call.op \in MutatingCalls /\ call.written = <<TRUE, TRUE>>) => ReopenedHoldsTheSame

(***************************************************************************)
(* The provider cache: a processor as main.py builds it calls              *)
(* create_google_cache once, before any question is processed.            *)
(***************************************************************************)
\* line 49
caching_models == {"gemini-1.5-flash-001", "gemini-1.5-pro-001"}

\* lines 45-67: listing says what client.models.list() does for a model that
\* is not in caching_models: it names createCachedContent among the actions
\* of the model, it does not, or it raises
SupportsCaching(model, listing) ==
    IF model \in caching_models THEN TRUE
    ELSE IF listing = "createCachedContent" THEN TRUE
    ELSE IF listing = "generateContent" THEN FALSE
    ELSE model \in caching_models

\* line 104: the least estimated number of tokens of a cached document
MinCacheTokens == 32768

\* a text of n characters
Filler(n) == [i \in 1..n |-> "a"]

\* lines 96-98: the chunks combined into a single document
RECURSIVE TranscriptText(_)
TranscriptText(chunks) ==
    IF chunks = <<>> THEN <<>>
    ELSE ChunkText(Head(chunks)) \o TranscriptText(Tail(chunks))

\* lines 85-93: the chunks of the store when none are given
ChunksOfCache(d) ==
    [i \in 1..Len(d) |->
        [start_time |-> d[i].start_time, end_time |-> d[i].end_time, text |-> d[i].text]]

\* a variant of CreateCacheOutcome without the test of line 104
CreateCacheUngated(supports, id, estimated_tokens, remote) ==
    IF ~supports
    THEN [ret |-> "", id |-> id, invoked |-> FALSE]
    ELSE IF remote = "upload raises"
    THEN [ret |-> "", id |-> id, invoked |-> FALSE]
    ELSE IF remote = "create raises"
    THEN [ret |-> "", id |-> id, invoked |-> TRUE]
    ELSE [ret |-> "cachedContents/1", id |-> "cachedContents/1", invoked |-> TRUE]

\* lines 69-139.  given: whether transcript_chunks is passed; remote: what
\* the provider does with the upload and the creation ("created", or the
\* call that raises).  The value tells what is returned ("" for None), the
\* id the processor holds afterwards, and whether client.caches.create was
\* invoked.
CreateCacheOutcome(supports, id, estimated_tokens, remote) ==
    IF ~supports
    THEN [ret |-> "", id |-> id, invoked |-> FALSE]
    ELSE IF estimated_tokens < MinCacheTokens
    THEN [ret |-> "", id |-> id, invoked |-> FALSE]
    ELSE IF remote = "upload raises"
    THEN [ret |-> "", id |-> id, invoked |-> FALSE]
    ELSE IF remote = "create raises"
    THEN [ret |-> "", id |-> id, invoked |-> TRUE]
    ELSE [ret |-> "cachedContents/1", id |-> "cachedContents/1", invoked |-> TRUE]

RemoteOutcomes == {"created", "upload raises", "create raises"}

create_google_cache(given, transcript_chunks, remote) ==
    /\ run = Idle
    /\ call = NoCall
    /\ \E chunks \in {IF given THEN transcript_chunks ELSE ChunksOfCache(transcript_cache)} :
       \E chars \in {Len(TranscriptText(chunks))} :
       \E done \in {CreateCacheOutcome(supports_caching, google_cache_id, chars \div 4,
                                       remote)} :
          /\ google_cache_id' = done.id
          /\ call' = [op |-> "create_google_cache", ret |-> done.ret,
                      invoked |-> done.invoked, supports |-> supports_caching,
                      chars |-> chars, before |-> google_cache_id]
    /\ UNCHANGED <<transcript_cache, qa_cache, transcript_file, qa_file, embedder, clock,
                   video_id, supports_caching, session, level, window, run, tasks, results,
                   all_answers, sent>>

\* a transcript whose document has n characters: one chunk, with its
\* "[start - end] " in front and its two newlines behind
DocumentOf(n) ==
    <<[start_time |-> T1, end_time |-> T2, text |-> Filler(n - Len(ChunkText(SessionChunks[1])) + 2)]>>

\* the transcripts create_google_cache is given: documents one character
\* short of MinCacheTokens tokens, of just as many, and a small one
GivenTranscripts ==
    {DocumentOf(4 * MinCacheTokens - 1), DocumentOf(4 * MinCacheTokens), SessionChunks}

\* the models a processor is built for, and what the listing says of them
Models == {"gemini-1.5-flash-001", "gemini-2.0-flash"}

Listings == {"createCachedContent", "generateContent", "raises"}

\* a processor right after BatchProcessor(api_key, model, cache) on the
\* store of the session: no provider cache id yet (line 43)
InitCaching ==
    /\ transcript_cache = AddChunksLoop(<<>>, SessionChunks, 0)
    /\ transcript_file = SavedFile(transcript_cache)
    /\ qa_cache = <<>>
    /\ qa_file = SavedFile(qa_cache)
    /\ embedder = "unloaded"
    /\ clock = 1
    /\ video_id = "abc123"
    /\ google_cache_id = ""
    /\ supports_caching \in {SupportsCaching(model, listing) :
                               model \in Models, listing \in Listings}
    /\ session = NoSession
    /\ level = 0
    /\ window = <<>>
    /\ run = Idle
    /\ tasks = <<>>
    /\ results = <<>>
    /\ all_answers = <<>>
    /\ sent = <<>>
    /\ call = NoCall

\* the creation of the provider cache, and then runs of one question
NextCaching ==
    \/ \E given \in BOOLEAN, transcript_chunks \in GivenTranscripts,
          remote \in RemoteOutcomes : create_google_cache(given, transcript_chunks, remote)
    \/ \E question \in Questions : process_batch_async(<<question>>)
    \/ CreateTasks
    \/ TaskStart(1)
    \/ \E outcome \in CallOutcomes : RunBody(1, outcome, TRUE, TRUE)
    \/ GatherReturns
    \/ BatchReturns
    \/ \E question \in Questions : process_interconnected_questions_async(<<question>>)
    \/ \E outcome \in CallOutcomes : InterStep(outcome, TRUE, TRUE)
    \/ InterReturns

SpecCaching == InitCaching /\ [][NextCaching]_vars

\* the last call of create_google_cache found the model supporting caching
\* and an estimate of at least MinCacheTokens tokens, the estimate being the
\* number of characters of the document divided by 4
CacheEligible == call.supports /\ call.chars \div 4 >= MinCacheTokens

\* C22: create_google_cache invokes the remote cache creation only when the
\* model supports caching and the estimated token count is at least 32768;
\* otherwise it returns no id and leaves google_cache_id as it was, and the
\* questions processed afterwards are sent without a cache, their prompts
\* carrying the transcript.
ProviderCacheGating ==
    call.op = "create_google_cache" =>
        /\ call.invoked => CacheEligible
        /\ ~CacheEligible =>
              /\ call.ret = ""
              /\ google_cache_id = call.before
              /\ google_cache_id = ""
              /\ \A k \in 1..Len(sent) : sent[k].prompt.transcript # <<>>

\* C22 happens: a model that supports caching and a document one character
\* short of the least size; no id was returned, and a question was sent
\* afterwards
ProviderCacheGatingWitness ==
    /\ call.op = "create_google_cache"
    /\ call.supports
    /\ call.chars = 4 * MinCacheTokens - 1
    /\ call.ret = ""
    /\ Len(sent) > 0
    /\ run.pc = "returned"

(***************************************************************************)
(* get_transcript_context with timestamps.                                 *)
(***************************************************************************)
\* the positions of timestamps that fall inside [start_time, end_time] of a
\* chunk
TimestampsInside(chunk, timestamps) ==
    {p \in 1..Len(timestamps) :
        StrLeq(chunk.start_time, timestamps[p]) /\ StrLeq(timestamps[p], chunk.end_time)}

\* the chunks of the store that contain at least one of the timestamps, each
\* once, in ascending index order
ChunksContaining(timestamps) ==
    LET Contains(chunk) == TimestampsInside(chunk, timestamps) # {}
    IN SortByIndex(SelectSeq(transcript_cache, Contains))

\* the string get_transcript_context makes of a sequence of chunks within a
\* budget
ContextOf(chunks, max_chars) == Strip(CombineContext(<<>>, chunks, max_chars))

\* C23: with a non-empty set of timestamps get_transcript_context returns,
\* within the budget, exactly the chunks whose interval contains at least one
\* requested timestamp, each such chunk once, in ascending index order,
\* however many of the timestamps fall inside the same chunk.
TimestampFilteredContext ==
    (call.op = "get_transcript_context" /\ call.timestamps # <<>>) =>
        call.ret = ContextOf(ChunksContaining(call.timestamps), call.max_chars)

\* the part of C23 that the code keeps: the calls in which no chunk of the
\* store contains more than one of the requested timestamps
TimestampFilteredContextOfSeparate ==
    (/\ call.op = "get_transcript_context"
     /\ call.timestamps # <<>>
     /\ \A i \in 1..Len(transcript_cache) :
           Cardinality(TimestampsInside(transcript_cache[i], call.timestamps)) <= 1) =>
        call.ret = ContextOf(ChunksContaining(call.timestamps), call.max_chars)

(***************************************************************************)
(* The post-processor: citations inferred from the chunk boundaries.       *)
(***************************************************************************)
\* the answer holds a bracketed citation
CitesInBrackets(answer) == \E i \in 1..Len(answer) : IsCitation(answer[i])

\* start_time and end_time of the stored chunks
BoundaryTimestamps ==
    {transcript_cache[i].start_time : i \in 1..Len(transcript_cache)}
    \cup {transcript_cache[i].end_time : i \in 1..Len(transcript_cache)}

\* C24: when the answer holds no bracketed citation and no no-information
\* phrase, the timestamps of the result are exactly the chunk boundary
\* timestamps that stand verbatim in the answer and are clock times
\* HH:MM:SS[.mmm]; when the answer holds a bracketed citation, every
\* timestamp of the result is the start of a citation of the answer and no
\* boundary timestamp is inferred.
InferredCitations ==
    call.op = "generate_content" =>
        /\ (~CitesInBrackets(LastResult.answer) /\ ~Denies(LastResult.answer)) =>
              {LastResult.timestamps[k] : k \in 1..Len(LastResult.timestamps)}
                 = {b \in BoundaryTimestamps :
                       TextInAnswer(b, LastResult.answer) /\ IsClockTime(b)}
        /\ CitesInBrackets(LastResult.answer) =>
              \A k \in 1..Len(LastResult.timestamps) :
                 \E i \in 1..Len(LastResult.answer) :
                    /\ IsCitation(LastResult.answer[i])
                    /\ StartOf(LastResult.answer[i].body) = LastResult.timestamps[k]

\* C24 happens: an answer without a citation that names the boundary
\* 00:01:05 and the boundaries "1:2:3" and "abc", which are no clock times,
\* got 00:01:05 alone; and an answer that cites 00:00:01 and the range from
\* 00:01:05, in which the boundary 00:02:00.500 stands too, got the two
\* cited times alone
InferredCitationsWitness ==
    /\ Len(results) = 2
    /\ results[1].answer =
          <<Bracket(ShortTime), Word("near"), Raw(T2), Word("or"), Raw(NotATime)>>
    /\ \A k \in 1..Len(results[1].timestamps) : results[1].timestamps[k] = T2
    /\ results[1].timestamps # <<>>
    /\ call.response = <<Bracket(T1), Word("until"), Bracket(RangeOf(T2, T3))>>
    /\ T3 \in BoundaryTimestamps
    /\ TextInAnswer(T3, LastResult.answer)
    /\ LastResult.timestamps = <<T1, T2>>

(***************************************************************************)
(* parse_vtt.py: chunk_transcript, called on the segments parse_vtt        *)
(* returns.                                                                *)
(***************************************************************************)
\* the most segments of a transcript, and the largest max_chunk_size
MaxSegments == 3

MaxChunkSize == 4

\* lines 100-104: the text of a segment, "" when it has none
SegmentText(segment) == IF "text" \in DOMAIN segment THEN segment.text ELSE <<>>

\* ' '.join of the texts of segments, lines 110 and 131
RECURSIVE JoinTexts(_)
JoinTexts(segments) ==
    IF segments = <<>> THEN <<>>
    ELSE IF Len(segments) = 1 THEN SegmentText(segments[1])
    ELSE SegmentText(segments[1]) \o <<" ">> \o JoinTexts(Tail(segments))

\* lines 108-118 and 129-139: the chunks with the chunk made of
\* current_chunk, which is added only if its text has content
CloseChunk(chunks, current_chunk) ==
    IF current_chunk # <<>> /\ Strip(JoinTexts(current_chunk)) # <<>>
    THEN Append(chunks, [start_time |-> current_chunk[1].start_time,
                         end_time |-> current_chunk[Len(current_chunk)].end_time,
                         text |-> JoinTexts(current_chunk)])
    ELSE chunks

\* lines 98-139: the loop over the segments and the last chunk
RECURSIVE ChunkLoop(_, _, _, _, _)
ChunkLoop(segments, max_chunk_size, chunks, current_chunk, current_size) ==
    IF segments = <<>> THEN CloseChunk(chunks, current_chunk)
    ELSE LET segment == Head(segments)
             segment_size == Len(SegmentText(segment))
         IN IF current_size + segment_size > max_chunk_size /\ current_chunk # <<>>
            THEN ChunkLoop(Tail(segments), max_chunk_size,
                           CloseChunk(chunks, current_chunk), <<segment>>, segment_size)
            ELSE ChunkLoop(Tail(segments), max_chunk_size, chunks,
                           Append(current_chunk, segment), current_size + segment_size)

\* lines 77-143
chunk_transcript(segments, max_chunk_size) ==
    IF segments = <<>> THEN <<>>
    ELSE ChunkLoop(segments, max_chunk_size, <<>>, <<>>, 0)

\* the texts of the cues of a subtitle file, and the segments made of them:
\* the i-th cue runs from second i to second i + 1
SegmentTexts == {<<"a">>, <<"a", "b">>, <<"a", "b", "c">>, <<" ">>}

SegmentLists ==
    UNION {{[i \in 1..n |-> [start_time |-> TsText(0, 0, i),
                             end_time |-> TsText(0, 0, i + 1),
                             text |-> texts[i]]] :
               texts \in [1..n -> SegmentTexts]} : n \in 0..MaxSegments}

\* main.py line 580, and parse_vtt.py as a library: the call and what it
\* returns
ChunkTranscript(segments, max_chunk_size) ==
    /\ run.mode = "idle"
    /\ call' = [op |-> "chunk_transcript", segments |-> segments,
                max_chunk_size |-> max_chunk_size,
                ret |-> chunk_transcript(segments, max_chunk_size)]
    /\ UNCHANGED <<transcript_cache, qa_cache, transcript_file, qa_file, embedder, clock,
                   video_id, google_cache_id, supports_caching, session, level, window, run,
                   tasks, results, all_answers, sent>>

NextChunk ==
    \E segments \in SegmentLists, max_chunk_size \in 1..MaxChunkSize :
        ChunkTranscript(segments, max_chunk_size)

SpecChunk == InitStore /\ [][NextChunk]_vars

\* the chunk is made of the segments a..b of the call: it carries the
\* start_time of the first, the end_time of the last, and their texts joined
\* by blanks
MadeOf(chunk, a, b) ==
    /\ chunk.start_time = call.segments[a].start_time
    /\ chunk.end_time = call.segments[b].end_time
    /\ chunk.text = JoinTexts(SubSeq(call.segments, a, b))

\* no text of a segment of the call is longer than the budget
SegmentsWithinBudget ==
    \A i \in 1..Len(call.segments) : Len(call.segments[i].text) <= call.max_chunk_size

\* C25: when no segment's text is longer than the budget, every chunk
\* chunk_transcript returns has a text of at most max_chunk_size characters,
\* consists of consecutive segments, and carries the start_time of its first
\* and the end_time of its last segment.
ChunkSizeBound ==
    (call.op = "chunk_transcript" /\ SegmentsWithinBudget) =>
        \A c \in 1..Len(call.ret) :
            /\ Len(call.ret[c].text) <= call.max_chunk_size
            /\ \E a, b \in 1..Len(call.segments) : a <= b /\ MadeOf(call.ret[c], a, b)

\* the part of C25 that the code keeps: the texts of the segments of a chunk
\* have at most max_chunk_size characters between them, the blanks that join
\* them coming on top
ChunkSizeBoundOfTexts ==
    (call.op = "chunk_transcript" /\ SegmentsWithinBudget) =>
        \A c \in 1..Len(call.ret) :
            \E a, b \in 1..Len(call.segments) :
                /\ a <= b
                /\ MadeOf(call.ret[c], a, b)
                /\ Len(call.ret[c].text) - (b - a) <= call.max_chunk_size

(***************************************************************************)
(* The prompts of an independent-batch run and the history.                *)
(***************************************************************************)
\* the pairs of the history that were there when the run began: all but the
\* pairs the successes of the run have appended
HistoryBeforeRun == SubSeq(qa_cache, 1, Len(qa_cache) - Successes)

\* C26: in an independent-batch run the prompt sent for a question contains
\* only history that existed before the run, never a question/answer pair
\* produced by another question of the same run, and it has no section of
\* in-batch prior answers.
IndependentBatchIsolation ==
    run.mode = "batch" =>
        \A k \in 1..Len(sent) :
            /\ sent[k].prompt.batch = <<>>
            /\ \A i \in 1..Len(sent[k].prompt.history) :
                  \E p \in 1..Len(HistoryBeforeRun) :
                      /\ sent[k].prompt.history[i].question = HistoryBeforeRun[p].question
                      /\ sent[k].prompt.history[i].answer = HistoryBeforeRun[p].answer

\* the part of C26 that the code keeps: the prompts of an independent-batch
\* run have no section of in-batch prior answers, and their history section
\* holds pairs of the stored history
IndependentBatchNoPriorAnswers ==
    run.mode = "batch" =>
        \A k \in 1..Len(sent) :
            /\ sent[k].prompt.batch = <<>>
            /\ HistoryShown(sent[k].prompt)

(***************************************************************************)
(* The post-processor: the links behind the citations.                     *)
(***************************************************************************)
\* C27: with a video id configured, after link rewriting every bracketed
\* citation occurrence of the answer is followed by exactly one link, also
\* when the same timestamp is cited more than once in the answer.
SingleLinkPerCitation ==
    (call.op = "generate_content" /\ video_id # "") =>
        \A i \in 1..Len(LastResult.answer) :
            IsCitation(LastResult.answer[i]) => Len(LastResult.answer[i].links) = 1

\* the part of C27 that the code keeps: the answers in which no citation
\* stands twice
SingleLinkPerDistinctCitation ==
    (/\ call.op = "generate_content"
     /\ video_id # ""
     /\ \A i, j \in 1..Len(LastResult.answer) :
           (/\ IsCitation(LastResult.answer[i])
            /\ IsCitation(LastResult.answer[j])
            /\ LastResult.answer[i].body = LastResult.answer[j].body) => i = j) =>
        \A i \in 1..Len(LastResult.answer) :
            IsCitation(LastResult.answer[i]) => Len(LastResult.answer[i].links) = 1

(***************************************************************************)
(* main.py: the menu loop of main_async and its three globals.  The store  *)
(* variables describe the store of the processor in use.  Options 3, 4 and *)
(* 6 assign none of the globals and are left out.                          *)
(***************************************************************************)
\* the ContextCache objects a session constructs
MaxLoads == 3

\* lines 39-42: the forms of URL the patterns of extract_video_id match
VideoUrlForms ==
    {"youtube.com/watch?v=", "youtu.be/", "youtube.com/embed/", "youtube.com/shorts/"}

\* lines 29-50, "" for None.  A URL is kept as the text in front of the id and
\* the id.
extract_video_id(url) == IF url.site \in VideoUrlForms THEN url.id ELSE ""

\* what the user may enter or select
Urls ==
    {[site |-> "youtu.be/", id |-> "abc123"],
     [site |-> "youtube.com/watch?v=", id |-> "xyz789"],
     [site |-> "vimeo.com/", id |-> "555"]}

\* the store and the processor after BatchProcessor(api_key=api_key,
\* cache=cache) on the cache of a loaded video, processor.video_id = vid and
\* create_google_cache(): lines 472-478, 544-550 and 591-597
NewProcessor(vid) ==
    /\ transcript_cache' = AddChunksLoop(<<>>, SessionChunks, 0)
    /\ transcript_file' = SavedFile(transcript_cache')
    /\ qa_cache' = <<>>
    /\ qa_file' = SavedFile(<<>>)
    /\ embedder' = "unloaded"
    /\ video_id' = vid
    /\ google_cache_id' =
          CreateCacheOutcome(supports_caching, "",
                             Len(TranscriptText(SessionChunks)) \div 4, "created").id
    /\ level' = 0

\* option 1, lines 457-485: a cached video is selected; url is the URL its
\* video_info.json holds, NoUrl without one
LoadCachedVideo(url) ==
    /\ run.mode = "idle"
    /\ session.cache < MaxLoads
    /\ session' = [YOUTUBE_VIDEO_URL |-> url,
                   cache |-> session.cache + 1,
                   processor |-> session.cache + 1]
    /\ NewProcessor(extract_video_id(url))
    /\ call' = [op |-> "load", url |-> url, loaded |-> TRUE]
    /\ UNCHANGED <<clock, supports_caching, window, run, tasks, results, all_answers, sent>>

\* how a load of lines 528-606 goes on after the ContextCache is built
LoadOutcomes ==
    {"cached transcript used", "downloaded", "download raises", "no subtitle file"}

\* option 1, lines 501-606: a URL is entered
LoadNewVideo(url, outcome) ==
    /\ run.mode = "idle"
    /\ session.cache < MaxLoads
    /\ IF extract_video_id(url) = ""
       THEN /\ call' = [op |-> "load", url |-> url, loaded |-> FALSE]
            /\ UNCHANGED <<transcript_cache, qa_cache, transcript_file, qa_file, embedder,
                           video_id, google_cache_id, session, level>>
       ELSE IF outcome \in {"cached transcript used", "downloaded"}
       THEN /\ session' = [YOUTUBE_VIDEO_URL |-> url,
                           cache |-> session.cache + 1,
                           processor |-> session.cache + 1]
            /\ NewProcessor(extract_video_id(url))
            /\ call' = [op |-> "load", url |-> url, loaded |-> TRUE]
       ELSE /\ session' = [session EXCEPT !.YOUTUBE_VIDEO_URL = url,
                                          !.cache = session.cache + 1]
            /\ call' = [op |-> "load", url |-> url, loaded |-> FALSE]
            /\ UNCHANGED <<transcript_cache, qa_cache, transcript_file, qa_file, embedder,
                           video_id, google_cache_id, level>>
    /\ UNCHANGED <<clock, supports_caching, window, run, tasks, results, all_answers, sent>>

\* options 2 and 5, lines 608-629 and 657-669: past the test of the three
\* globals the questions go to process_questions_async(processor, ...),
\* which runs process_batch_async (batch_processor.py line 171)
ProcessQuestions(questions) ==
    /\ session.YOUTUBE_VIDEO_URL # NoUrl
    /\ session.cache # 0
    /\ session.processor # 0
    /\ process_batch_async(questions)

\* lines 629-632 and 669-672: the results are printed and the menu is shown
\* again
MenuShownAgain ==
    /\ run.mode = "batch" /\ run.pc = "returned"
    /\ run' = Idle
    /\ UNCHANGED <<transcript_cache, qa_cache, transcript_file, qa_file, embedder, clock,
                   video_id, google_cache_id, supports_caching, session, level, window, tasks,
                   results, all_answers, sent, call>>

\* lines 416-419
InitMain ==
    /\ transcript_cache = <<>>
    /\ transcript_file = MissingFile
    /\ qa_cache = <<>>
    /\ qa_file = MissingFile
    /\ embedder = "unloaded"
    /\ clock = 1
    /\ video_id = ""
    /\ google_cache_id = ""
    /\ supports_caching = TRUE
    /\ session = NoSession
    /\ level = 0
    /\ window = <<>>
    /\ run = Idle
    /\ tasks = <<>>
    /\ results = <<>>
    /\ all_answers = <<>>
    /\ sent = <<>>
    /\ call = NoCall

NextMain ==
    \/ \E url \in Urls \cup {NoUrl} : LoadCachedVideo(url)
    \/ \E url \in Urls, outcome \in LoadOutcomes : LoadNewVideo(url, outcome)
    \/ \E question \in Questions : ProcessQuestions(<<question>>)
    \/ CreateTasks
    \/ TaskStart(1)
    \/ \E outcome \in CallOutcomes : RunBody(1, outcome, TRUE, TRUE)
    \/ GatherReturns
    \/ BatchReturns
    \/ MenuShownAgain

SpecMain == InitMain /\ [][NextMain]_vars

\* the processor the questions go to is built on the ContextCache the global
\* cache refers to, and its video_id is the id of YOUTUBE_VIDEO_URL
ProcessorOfSession ==
    /\ session.processor # 0
    /\ session.processor = session.cache
    /\ video_id = extract_video_id(session.YOUTUBE_VIDEO_URL)

\* C28: in every state of the menu loop in which option 2 or option 5 goes on
\* to process questions, the active processor's cache is the session's
\* current cache and the processor's video_id is the id of the current
\* YOUTUBE_VIDEO_URL, after any sequence of load attempts.
SessionConsistency ==
    run.mode = "batch" => ProcessorOfSession

\* the part of C28 that the code keeps: the questions that are processed
\* when the last load attempt built a processor
SessionConsistencyAfterLoad ==
    (run.mode = "batch" /\ call.op = "load" /\ call.loaded) => ProcessorOfSession

(***************************************************************************)
(* The transcript store: the index of the stored chunks.                   *)
(***************************************************************************)
\* no two chunks of d have the same index
UniqueIndexes(d) ==
    \A i, j \in 1..Len(d) : i # j => d[i].index # d[j].index

\* the position in chunks of the last chunk with the key of value
LastSupplied(chunks, value) ==
    CHOOSE p \in 1..Len(chunks) :
        /\ ChunkKey(chunks[p]) = value.key
        /\ \A q \in (p + 1)..Len(chunks) : ChunkKey(chunks[q]) # value.key

\* the chunks the no-timestamp get_transcript_context goes through are in the
\* order in which chunks supplied them
InSuppliedOrder(d, chunks) ==
    LET sorted_chunks == SortByIndex(d)
    IN \A i, j \in 1..Len(sorted_chunks) :
          i < j => LastSupplied(chunks, sorted_chunks[i]) < LastSupplied(chunks, sorted_chunks[j])

\* C29: after any sequence of add_transcript_chunks calls on a store,
\* including a call on a store that already holds an older transcript, no two
\* stored chunks have the same index.
ChunkIndexUniqueness == UniqueIndexes(transcript_cache)

\* the part of C29 that the code keeps: after add_transcript_chunks on a
\* store that holds no chunk the indexes differ and the index order is the
\* order of the supplied chunks
ChunkIndexUniquenessOnEmpty ==
    [][(/\ transcript_cache = <<>>
        /\ call'.op = "add_transcript_chunks"
        /\ transcript_cache' # <<>>) =>
          /\ UniqueIndexes(transcript_cache')
          /\ InSuppliedOrder(transcript_cache', call'.chunks)]_vars

(***************************************************************************)
(* The transcript store: which chunks a context holds.                     *)
(***************************************************************************)
\* the candidates of a call in the order of line 129
Candidates(timestamps) ==
    IF timestamps = <<>> THEN SortByIndex(transcript_cache)
    ELSE SortByIndex(FilterChunks(timestamps, transcript_cache))

\* the texts of the first n chunks, one after the other
RECURSIVE PrefixText(_, _)
PrefixText(chunks, n) ==
    IF n = 0 THEN <<>> ELSE PrefixText(chunks, n - 1) \o ChunkText(chunks[n])

\* the number of leading chunks that fit into max_chars together
FittingPrefix(chunks, max_chars) ==
    CHOOSE n \in 0..Len(chunks) :
        /\ Len(PrefixText(chunks, n)) <= max_chars
        /\ n < Len(chunks) => Len(PrefixText(chunks, n + 1)) > max_chars

\* C30: the chunks included by get_transcript_context are a prefix of the
\* index-ordered candidate sequence, the longest that fits into the budget;
\* once a chunk does not fit no later chunk is included, even one small
\* enough to fit.
ContextIsPrefix ==
    call.op = "get_transcript_context" =>
        LET candidates == Candidates(call.timestamps)
        IN call.ret = Strip(PrefixText(candidates,
                                       FittingPrefix(candidates, call.max_chars)))

\* C30 happens: the first candidate does not fit, the second would have
\* fitted into the budget, and the context is empty
ContextIsPrefixWitness ==
    /\ call.op = "get_transcript_context"
    /\ call.timestamps = <<>>
    /\ Len(transcript_cache) = 2
    /\ LET candidates == Candidates(call.timestamps)
       IN /\ Len(ChunkText(candidates[1])) > call.max_chars
          /\ Len(ChunkText(candidates[2])) <= call.max_chars
    /\ call.ret = <<>>

====
